---------------------------- MODULE Spec2Model ----------------------------
(***************************************************************************)
(* A model of the vcf_parser query engine: explode_data, outer_join and    *)
(* filter_record of src/src/utils.rs, parse_logic_expr of                  *)
(* src/src/parser.rs, the INFO decoding of Variant::new of                 *)
(* src/src/variant.rs, the per-line loop of run of src/src/lib.rs and      *)
(* VcfParser::new of src/src/vcfparser.rs.                                 *)
(*                                                                         *)
(* A serde_json Value is a tagged tuple: <<"null">>, <<"bool", b>>,        *)
(* <<"num", kind, n>>, <<"str", chars>>, <<"arr", seq>>, <<"obj", map>>.   *)
(* A Map<String, Value> is a function from column names to Values.  The    *)
(* text of a string Value is a sequence of one-character strings, so that  *)
(* split(".") is computed on it.                                           *)
(***************************************************************************)
EXTENDS Integers, Sequences, FiniteSets, TLC

VARIABLES
    pc,           \* position of the modelled call
    tables,       \* outer_join: the tables not yet popped
    keys,         \* outer_join: the key paths not yet popped
    right_table,  \* outer_join: the accumulator table
    right_key,    \* outer_join: the accumulator key path
    arg_tables,   \* outer_join: the tables the call was given
    arg_keys,     \* outer_join: the key paths the call was given
    consumed,     \* outer_join: left rows removed by left_table.remove so far
    arg_data,     \* explode_data: the Value to explode
    arg_key,      \* explode_data: the path of the child to explode on
    arg_drops,    \* explode_data: the columns to drop
    exploded,     \* explode_data: the rows returned
    arg_record,   \* filter_record: the row
    arg_filters,  \* filter_record: the predicate tree
    verdict,      \* filter_record: "true", "false", or "panic"; "none" before
    arg_input,    \* parse_logic_expr: the bytes of the expression
    parsed,       \* parse_logic_expr: <<"ok", tree>> or <<"err">>
    arg_field,    \* Variant::new: the header entry of one INFO field
    arg_dat,      \* Variant::new: vcf_record.info(id) of that field
    decoded,      \* Variant::new: what the field contributes to info
    arg_lines,    \* run: the lines of the input
    arg_filter,   \* run: the predicate tree read from the filter file
    threads,      \* run: the number of workers of the pool
    next_line,    \* run: the position of the shared line iterator
    worker,       \* run: per worker, "idle", "print" or "panic"
    joined,       \* run: per worker, the joined rows not yet filtered
    sink,         \* run: the rows written to stdout, in order
    arg_fields,   \* VcfParser::new: the fields argument
    arg_joins,    \* VcfParser::new: the fields_join argument
    created       \* VcfParser::new: the result

joinVars == <<tables, keys, right_table, right_key, arg_tables, arg_keys,
              consumed>>
explodeVars == <<arg_data, arg_key, arg_drops, exploded>>
filterVars == <<arg_record, arg_filters, verdict>>
parseVars == <<arg_input, parsed>>
decodeVars == <<arg_field, arg_dat, decoded>>
runVars == <<arg_lines, arg_filter, threads, next_line, worker, joined, sink>>
newVars == <<arg_fields, arg_joins, created>>
vars == <<pc, joinVars, explodeVars, filterVars, parseVars, decodeVars,
          runVars, newVars>>

(***************************************************************************)
(* Bounds of the model.                                                    *)
(***************************************************************************)
MaxTables == 3     \* tables in one outer_join call
MaxRows == 4       \* rows of all tables of a call together
MaxRichRows == 2   \* rows of both tables together, calls with free cells
MaxElems == 2      \* elements of the array explode_data explodes
MaxDrops == 2      \* entries of the drop list of explode_data
MaxNodes == 4      \* nodes of a predicate tree
MaxConds == 3      \* comparisons of a filter expression
MaxPieces == 4     \* pipe-separated pieces of all sub-tokens of a field
MaxNames == 2      \* subfield names of a composite field
MaxLines == 3      \* lines of the input of a run
MaxWorkers == 2    \* workers of the pool of a run
MaxArgs == 3       \* field names, and join names, of a parser

(***************************************************************************)
(* serde_json::Value                                                       *)
(***************************************************************************)
Null == <<"null">>
Bool(b) == <<"bool", b>>
NumI(n) == <<"num", "i", n>>
NumF(n) == <<"num", "f", n>>
Str(s) == <<"str", s>>
Arr(a) == <<"arr", a>>
Obj(m) == <<"obj", m>>

IsNull(v) == v[1] = "null"
IsStr(v) == v[1] = "str"
IsNum(v) == v[1] = "num"
IsArr(v) == v[1] = "arr"
IsObj(v) == v[1] = "obj"

EmptyMap == [k \in {} |-> Null]

\* map.get(k).unwrap_or(&Value::Null)
Get(m, k) == IF k \in DOMAIN m THEN m[k] ELSE Null

\* map.insert(k, v)
Insert(m, k, v) == [c \in DOMAIN m \cup {k} |-> IF c = k THEN v ELSE m[c]]

\* map.remove(k)
Remove(m, k) == [c \in DOMAIN m \ {k} |-> m[c]]

Min(S) == CHOOSE x \in S : \A y \in S : x <= y
Max(S) == CHOOSE x \in S : \A y \in S : x >= y

(***************************************************************************)
(* outer_join: the match token of a row.                                   *)
(***************************************************************************)
MISSING == <<"_", "_", "M", "I", "S", "S", "I", "N", "G", "_", "_">>

\* Mutant of SplitFirst: the text is not split.
SplitFirstWhole(s) == s

\* s.split(".").first(): the text before the first '.', the whole text
\* when it holds none.
SplitFirst(s) ==
    LET dots == {i \in 1..Len(s) : s[i] = "."}
    IN  IF dots = {} THEN s ELSE SubSeq(s, 1, Min(dots) - 1)

\* x.as_str().unwrap() succeeds: the key value is Null (not unwrapped) or
\* a String.
TokenOk(entry, key) == IsNull(Get(entry, key)) \/ IsStr(Get(entry, key))

\* Mutant of MatchToken: a Null or absent key gives the empty token.
MatchTokenEmpty(entry, key) ==
    LET v == Get(entry, key)
    IN  IF IsNull(v) THEN <<>> ELSE SplitFirst(v[2])

\* match entry.get(&key).unwrap_or(&Value::Null) { Null => "__MISSING__",
\* x => x.as_str().unwrap() }.split(".") ... .first()
MatchToken(entry, key) ==
    LET v == Get(entry, key)
    IN  IF IsNull(v) THEN SplitFirst(MISSING) ELSE SplitFirst(v[2])

\* Mutant of Position: the last matching index (rposition).
PositionLast(left_table, left_key, tok) ==
    LET hit == {j \in 1..Len(left_table) :
                   /\ TokenOk(left_table[j], left_key)
                   /\ MatchToken(left_table[j], left_key) = tok}
    IN  IF hit # {} THEN Max(hit) ELSE 0

\* left_table.iter().position(|left_entry| token(left_entry) == token): the
\* first index whose token equals tok; 0 for None; -1 when as_str().unwrap()
\* panics on a row examined before a match is found.
Position(left_table, left_key, tok) ==
    LET bad == {j \in 1..Len(left_table) : ~TokenOk(left_table[j], left_key)}
        hit == {j \in 1..Len(left_table) :
                   /\ TokenOk(left_table[j], left_key)
                   /\ MatchToken(left_table[j], left_key) = tok}
    IN  IF hit # {} /\ (bad = {} \/ Min(hit) < Min(bad)) THEN Min(hit)
        ELSE IF bad # {} THEN -1
        ELSE 0

\* Mutant of RemoveAt: the row stays in the left table.
RemoveAtNone(s, i) == s

\* left_table.remove(left_index)
RemoveAt(s, i) == SubSeq(s, 1, i - 1) \o SubSeq(s, i + 1, Len(s))

\* Mutant of MergeEntry: the left row's values replace the accumulator's.
MergeEntryOverwrite(right_entry, left_entry) ==
    [k \in DOMAIN right_entry \cup DOMAIN left_entry |->
        IF k \in DOMAIN left_entry THEN left_entry[k] ELSE right_entry[k]]

\* for (k, v) in left_entry { if right_entry.get(&k).unwrap_or(&Null) == &Null
\*                                { right_entry.insert(k, v) } }
MergeEntry(right_entry, left_entry) ==
    [k \in DOMAIN right_entry \cup DOMAIN left_entry |->
        IF k \in DOMAIN left_entry /\ Get(right_entry, k) = Null
        THEN left_entry[k]
        ELSE right_entry[k]]

\* for k in cols { if entry.get(k).unwrap_or(&Null) == &Null
\*                     { entry.insert(k, Value::Null) } }
FillNull(entry, cols) ==
    [k \in DOMAIN entry \cup cols |->
        IF k \in cols /\ Get(entry, k) = Null THEN Null ELSE entry[k]]

\* right_table.iter_mut().for_each(|right_entry| ...): the rows of `todo` in
\* order; each one takes its partner out of left_table or is Null-filled.
\* `removed` counts the calls of left_table.remove.
Panicked == [panic |-> TRUE, rows |-> <<>>, left |-> <<>>, removed |-> 0]

RECURSIVE MergeRows(_, _, _, _, _, _, _)
MergeRows(done, todo, left_table, rkey, left_key, left_keys, removed) ==
    IF todo = <<>>
    THEN [panic |-> FALSE, rows |-> done, left |-> left_table,
          removed |-> removed]
    ELSE LET right_entry == Head(todo)
         IN  IF ~TokenOk(right_entry, rkey)
             THEN Panicked
             ELSE LET left_index ==
                          Position(left_table, left_key,
                                   MatchToken(right_entry, rkey))
                  IN  IF left_index = -1
                      THEN Panicked
                      ELSE IF left_index > 0
                      THEN MergeRows(
                               Append(done, MergeEntry(right_entry,
                                                       left_table[left_index])),
                               Tail(todo), RemoveAt(left_table, left_index),
                               rkey, left_key, left_keys, removed + 1)
                      ELSE MergeRows(
                               Append(done, FillNull(right_entry, left_keys)),
                               Tail(todo), left_table,
                               rkey, left_key, left_keys, removed)

\* Mutant of PushLeft: the unmatched left rows are not appended.
PushLeftNone(rows, left_table, right_keys) == rows

\* for left_entry in left_table { ...; right_table.push(new_entry) }
PushLeft(rows, left_table, right_keys) ==
    rows \o [j \in 1..Len(left_table) |-> FillNull(left_table[j], right_keys)]

\* One iteration of `while let Some(mut left_table) = tables.pop()`:
\* left_table[0] and right_table[0] panic on an empty table.
MergeStep(rtable, rkey, left_table, left_key) ==
    IF left_table = <<>> \/ rtable = <<>>
    THEN Panicked
    ELSE LET left_keys == DOMAIN left_table[1]
             right_keys == DOMAIN rtable[1]
             m == MergeRows(<<>>, rtable, left_table, rkey, left_key,
                            left_keys, 0)
         IN  IF m.panic THEN m
             ELSE [m EXCEPT !.rows = PushLeft(m.rows, m.left, right_keys)]

(***************************************************************************)
(* outer_join as a state machine: the entry checks, one step per iteration *)
(* of the `while let` loop, and the return.                                *)
(***************************************************************************)
Last(s) == s[Len(s)]
Front(s) == SubSeq(s, 1, Len(s) - 1)

\* Mutant of OuterJoinEnter: the accumulator starts empty and every table
\* is merged into it.
OuterJoinEnterEmptyAcc ==
    /\ pc = "call"
    /\ IF Len(tables) = 0
       THEN pc' = "ok"
       ELSE IF Len(tables) # Len(keys)
       THEN pc' = "err"
       ELSE pc' = "loop"
    /\ right_key' = IF keys = <<>> THEN right_key ELSE keys[Len(keys)]
    /\ UNCHANGED <<tables, keys, right_table, arg_tables, arg_keys, consumed,
                   explodeVars, filterVars,
                   parseVars, decodeVars, runVars,
                   newVars>>

\* if tables.len() == 0 { return Ok(vec![]) }
\* if tables.len() != keys.len() { return Err(..) }
\* right_table = tables.pop().unwrap(); right_key = keys.pop().unwrap()
OuterJoinEnter ==
    /\ pc = "call"
    /\ IF Len(tables) = 0
       THEN /\ pc' = "ok"
            /\ UNCHANGED <<tables, keys, right_table, right_key>>
       ELSE IF Len(tables) # Len(keys)
       THEN /\ pc' = "err"
            /\ UNCHANGED <<tables, keys, right_table, right_key>>
       ELSE /\ pc' = "loop"
            /\ right_table' = Last(tables)
            /\ tables' = Front(tables)
            /\ right_key' = Last(keys)
            /\ keys' = Front(keys)
    /\ UNCHANGED <<arg_tables, arg_keys, consumed, explodeVars, filterVars,
                   parseVars, decodeVars, runVars,
                   newVars>>

\* while let Some(mut left_table) = tables.pop() { ... }
OuterJoinMerge ==
    /\ pc = "loop"
    /\ tables # <<>>
    /\ LET left_table == Last(tables)
           left_key == Last(keys)
           m == MergeStep(right_table, right_key, left_table, left_key)
       IN  IF m.panic
           THEN /\ pc' = "panic"
                /\ UNCHANGED <<tables, keys, right_table, consumed>>
           ELSE /\ pc' = "loop"
                /\ tables' = Front(tables)
                /\ keys' = Front(keys)
                /\ right_table' = m.rows
                /\ consumed' = consumed + m.removed
    /\ UNCHANGED <<right_key, arg_tables, arg_keys, explodeVars, filterVars,
                   parseVars, decodeVars, runVars,
                   newVars>>

\* Ok(right_table)
OuterJoinReturn ==
    /\ pc = "loop"
    /\ tables = <<>>
    /\ pc' = "ok"
    /\ UNCHANGED <<joinVars, explodeVars, filterVars,
                   parseVars, decodeVars, runVars,
                   newVars>>

(***************************************************************************)
(* The calls examined.  Positional calls: up to MaxTables tables with up   *)
(* to MaxRows rows together; a row holds its table's key column and a      *)
(* column of its own table that tells the row's position.  Free-cell       *)
(* calls: two tables with up to MaxRichRows rows together; the key column  *)
(* and a column "d" common to both tables are each absent, Null or set.    *)
(***************************************************************************)
RECURSIVE SumTo(_, _)
SumTo(c, n) == IF n = 0 THEN 0 ELSE c[n] + SumTo(c, n - 1)

Counts(T, total) == {c \in [1..T -> 0..total] : SumTo(c, T) <= total}

\* The key path of table t: one path for all tables, or one per table.
KeyCol(t, shared) == IF shared THEN "k" ELSE "k" \o ToString(t)
DataCol(t) == "d" \o ToString(t)

KeyCells == {Null, Str(<<"a">>), Str(<<"b">>)}

Absent == <<"absent">>
RichKeyCells == {Absent, Null, Str(<<"a">>), Str(<<"a", ".", "1">>),
                 Str(<<"b">>), Str(MISSING), NumI(7)}
RichDataCells == {Absent, Null, Str(<<"x">>), Str(<<"y">>)}

Cell(col, v) == IF v = Absent THEN EmptyMap ELSE (col :> v)

\* Table t of a positional call: rows c[1]+..+c[t-1]+1 .. c[1]+..+c[t] of cells.
PlainTables(T, c, cells, shared) ==
    [t \in 1..T |->
        [i \in 1..c[t] |->
            (KeyCol(t, shared) :> cells[SumTo(c, t - 1) + i])
            @@ (DataCol(t) :> Str(<<ToString(i)>>))]]

RichTables(c, cells, shared) ==
    [t \in 1..2 |->
        [i \in 1..c[t] |->
            Cell(KeyCol(t, shared), cells[SumTo(c, t - 1) + i][1])
            @@ Cell("d", cells[SumTo(c, t - 1) + i][2])]]

KeyPaths(n, shared) == [t \in 1..n |-> KeyCol(t, shared)]

\* Key lists of the table count, one shorter and one longer.
KeyLens(T) == {n \in {T - 1, T, T + 1} : n >= 0}

JoinVarsInit(tl, kl) ==
    /\ arg_tables = tl
    /\ arg_keys = kl
    /\ tables = tl
    /\ keys = kl
    /\ right_table = <<>>
    /\ right_key = ""
    /\ consumed = 0

\* The variables of the other functions while they are not the call
\* examined.
ParseIdle == arg_input = <<>> /\ parsed = <<"none">>
DecodeIdle == arg_field = <<>> /\ arg_dat = <<>> /\ decoded = <<"none">>
RunIdle ==
    /\ arg_lines = <<>> /\ arg_filter = <<"null">> /\ threads = 0
    /\ next_line = 1 /\ worker = <<>> /\ joined = <<>> /\ sink = <<>>
NewIdle == arg_fields = <<>> /\ arg_joins = <<>> /\ created = <<"none">>
ExplodeIdle ==
    arg_data = Null /\ arg_key = "" /\ arg_drops = <<>> /\ exploded = <<>>
FilterIdle ==
    arg_record = EmptyMap /\ arg_filters = Null /\ verdict = "none"
JoinIdle == JoinVarsInit(<<>>, <<>>)

\* The calls of outer_join examined.
JoinCall ==
    \/ \E T \in 0..MaxTables : \E c \in Counts(T, MaxRows) :
         \E cells \in [1..SumTo(c, T) -> KeyCells] :
           \E shared \in BOOLEAN : \E n \in KeyLens(T) :
             JoinVarsInit(PlainTables(T, c, cells, shared), KeyPaths(n, shared))
    \/ \E c \in Counts(2, MaxRichRows) :
         \E cells \in [1..SumTo(c, 2) -> RichKeyCells \X RichDataCells] :
           \E shared \in BOOLEAN :
             JoinVarsInit(RichTables(c, cells, shared), KeyPaths(2, shared))

InitJoin ==
    /\ pc = "call"
    /\ ExplodeIdle /\ FilterIdle /\ ParseIdle /\ DecodeIdle
    /\ RunIdle /\ NewIdle
    /\ JoinCall

NextJoin == OuterJoinEnter \/ OuterJoinMerge \/ OuterJoinReturn

SpecJoin == InitJoin /\ [][NextJoin]_vars

(***************************************************************************)
(* Claims about outer_join, stated on the arguments of the call            *)
(* (arg_tables, arg_keys) and on what it returned (right_table at "ok").   *)
(***************************************************************************)
NonEmptyArgs == \A t \in 1..Len(arg_tables) : arg_tables[t] # <<>>
TwoTables == Len(arg_tables) = 2 /\ Len(arg_keys) = 2 /\ NonEmptyArgs
ArgRowCounts == {Len(arg_tables[t]) : t \in 1..Len(arg_tables)}
ArgRowTotal == SumTo([t \in 1..Len(arg_tables) |-> Len(arg_tables[t])],
                     Len(arg_tables))

\* The text before the first '.', told without scanning: the prefix of s
\* that holds no '.' and is all of s or is followed by a '.'.
BeforeDot(s) ==
    CHOOSE p \in {SubSeq(s, 1, n) : n \in 0..Len(s)} :
        /\ \A i \in 1..Len(p) : p[i] # "."
        /\ (Len(p) = Len(s) \/ s[Len(p) + 1] = ".")

\* The match token the specification gives a row.
SpecToken(entry, key) ==
    IF Get(entry, key) = Null THEN MISSING ELSE BeforeDot(Get(entry, key)[2])

AllKeysTokens ==
    \A t \in 1..2 : \A i \in 1..Len(arg_tables[t]) :
        TokenOk(arg_tables[t][i], arg_keys[t])
AllKeysStrings ==
    \A t \in 1..2 : \A i \in 1..Len(arg_tables[t]) :
        IsStr(Get(arg_tables[t][i], arg_keys[t]))
SomeKeyLacking ==
    \E t \in 1..2 : \E i \in 1..Len(arg_tables[t]) :
        Get(arg_tables[t][i], arg_keys[t]) = Null

\* The left row (index in the left table as given) that right row i takes:
\* the first one with its token that no earlier right row took; 0 for none.
RECURSIVE Partner(_)
Partner(i) ==
    LET taken == {Partner(h) : h \in 1..(i - 1)}
        free == {j \in 1..Len(arg_tables[1]) :
                    /\ j \notin taken
                    /\ SpecToken(arg_tables[1][j], arg_keys[1])
                         = SpecToken(arg_tables[2][i], arg_keys[2])}
    IN  IF free = {} THEN 0 ELSE Min(free)

Partners == {Partner(i) : i \in 1..Len(arg_tables[2])} \ {0}
Unconsumed == {j \in 1..Len(arg_tables[1]) : j \notin Partners}

\* The r-th smallest element of a set of numbers.
RECURSIVE Nth(_, _)
Nth(S, r) == IF r = 1 THEN Min(S) ELSE Nth(S \ {Min(S)}, r - 1)

\* row `out` is row `own` completed by row `other`: own's non-Null values,
\* else other's value, on the columns of both.
IsMergeOf(out, own, other) ==
    /\ DOMAIN out = DOMAIN own \cup DOMAIN other
    /\ \A k \in DOMAIN out :
           out[k] = IF Get(own, k) # Null THEN own[k] ELSE Get(other, k)

\* row `out` is row `own` with Null on the columns `cols` it did not hold.
IsNullFilled(out, own, cols) ==
    /\ DOMAIN out = DOMAIN own \cup cols
    /\ \A k \in DOMAIN out : out[k] = Get(own, k)

\* C2: for two non-empty tables outer_join returns the right rows in their
\* order, each merged with the first not-yet-consumed left row of its token
\* or Null-filled on the columns of the left table's first row, then the
\* unconsumed left rows in their order, Null-filled on the columns of the
\* right table's first row; a left row is consumed at most once.  (Join-key
\* values are Strings, Null or absent: other values have no match token.)
C2_RightRowsThenLeftovers ==
    (pc = "ok" /\ TwoTables /\ AllKeysTokens) =>
        LET L == arg_tables[1]
            R == arg_tables[2]
        IN  /\ Len(right_table) = Len(R) + Cardinality(Unconsumed)
            /\ consumed = Cardinality(Partners)
            /\ \A i, h \in 1..Len(R) :
                   (i # h /\ Partner(i) # 0) => Partner(i) # Partner(h)
            /\ \A i \in 1..Len(R) :
                   IF Partner(i) # 0
                   THEN IsMergeOf(right_table[i], R[i], L[Partner(i)])
                   ELSE IsNullFilled(right_table[i], R[i], DOMAIN L[1])
            /\ \A r \in 1..Cardinality(Unconsumed) :
                   IsNullFilled(right_table[Len(R) + r], L[Nth(Unconsumed, r)],
                                DOMAIN R[1])

\* A right row passes over the first left row of its token, already taken
\* by an earlier right row, and takes a later one.
C2_Witness ==
    /\ pc = "ok"
    /\ TwoTables
    /\ AllKeysTokens
    /\ \E i \in 1..Len(arg_tables[2]) :
           /\ Partner(i) > 1
           /\ SpecToken(arg_tables[1][1], arg_keys[1])
                = SpecToken(arg_tables[2][i], arg_keys[2])
    /\ Len(right_table) = Len(arg_tables[2])

\* C3: in every merge step a column that is non-Null in an accumulator row
\* keeps its value, and every row the step appends keeps the non-Null
\* values of the left row it comes from.
C3_NonNullKept ==
    [][(pc = "loop" /\ pc' = "loop") =>
          LET left_table == Last(tables)
              n == Len(right_table)
          IN  /\ Len(right_table') >= n
              /\ \A i \in 1..n : \A k \in DOMAIN right_table[i] :
                     right_table[i][k] # Null =>
                         /\ k \in DOMAIN right_table'[i]
                         /\ right_table'[i][k] = right_table[i][k]
              /\ \A r \in (n + 1)..Len(right_table') :
                     \E j \in 1..Len(left_table) :
                         \A k \in DOMAIN left_table[j] :
                             left_table[j][k] # Null =>
                                 /\ k \in DOMAIN right_table'[r]
                                 /\ right_table'[r][k] = left_table[j][k]
      ]_vars

\* An accumulator row and the left row merged into it both hold a value
\* under "d", and they differ; the accumulator's value is in the result.
C3_Witness ==
    /\ pc = "ok"
    /\ TwoTables
    /\ consumed = 1
    /\ Len(arg_tables[1]) = 1
    /\ Len(arg_tables[2]) = 1
    /\ Get(arg_tables[1][1], "d") = Str(<<"x">>)
    /\ Get(arg_tables[2][1], "d") = Str(<<"y">>)
    /\ Get(right_table[1], "d") = Str(<<"y">>)

\* C4 as stated: two rows match exactly when the texts before the first '.'
\* of their String join keys are equal, each read under its own table's key
\* path, and a row without a partner has Null under the other table's key
\* path.
C4_NullUnderOtherKey ==
    (pc = "ok" /\ TwoTables /\ AllKeysStrings) =>
        LET L == arg_tables[1]
            R == arg_tables[2]
        IN  /\ (consumed > 0) <=>
                   \E i \in 1..Len(R), j \in 1..Len(L) :
                       BeforeDot(R[i][arg_keys[2]][2])
                         = BeforeDot(L[j][arg_keys[1]][2])
            /\ \A i \in 1..Len(R) :
                   Partner(i) = 0 => Get(right_table[i], arg_keys[1]) = Null
            /\ \A r \in 1..Cardinality(Unconsumed) :
                   Get(right_table[Len(R) + r], arg_keys[2]) = Null

\* C4 amended: ... a row without a partner has Null under the other
\* table's key path unless the row itself holds a non-Null value under that
\* path (as when both tables use one key path), which it keeps.
C4_TokensBeforeDot ==
    (pc = "ok" /\ TwoTables /\ AllKeysStrings) =>
        LET L == arg_tables[1]
            R == arg_tables[2]
        IN  /\ (consumed > 0) <=>
                   \E i \in 1..Len(R), j \in 1..Len(L) :
                       BeforeDot(R[i][arg_keys[2]][2])
                         = BeforeDot(L[j][arg_keys[1]][2])
            /\ \A i \in 1..Len(R) :
                   Partner(i) = 0 =>
                       Get(right_table[i], arg_keys[1]) = Get(R[i], arg_keys[1])
            /\ \A r \in 1..Cardinality(Unconsumed) :
                   Get(right_table[Len(R) + r], arg_keys[2])
                     = Get(L[Nth(Unconsumed, r)], arg_keys[2])

\* "a" under k1 and "a.1" under k2 are merged into one row.
C4_Witness ==
    /\ pc = "ok"
    /\ TwoTables
    /\ arg_keys = <<"k1", "k2">>
    /\ Len(arg_tables[1]) = 1
    /\ Len(arg_tables[2]) = 1
    /\ Get(arg_tables[1][1], "k1") = Str(<<"a">>)
    /\ Get(arg_tables[2][1], "k2") = Str(<<"a", ".", "1">>)
    /\ Len(right_table) = 1
    /\ Get(right_table[1], "k1") = Str(<<"a">>)
    /\ Get(right_table[1], "k2") = Str(<<"a", ".", "1">>)

\* C5: for non-empty tables with one key each, outer_join returns at least
\* as many rows as the largest table holds.
C5_AtLeastLargest ==
    (pc = "ok" /\ Len(arg_tables) >= 1 /\ NonEmptyArgs) =>
        Len(right_table) >= Max(ArgRowCounts)

\* Three tables, and more rows returned than the largest of them holds.
C5_Witness ==
    /\ pc = "ok"
    /\ Len(arg_tables) = 3
    /\ NonEmptyArgs
    /\ Len(right_table) > Max(ArgRowCounts)

\* C6 as stated (two tables, String keys): if some row of some table stays unmatched,
\* outer_join returns strictly more rows than the largest table holds.
C6_UnmatchedAddsRow ==
    (pc = "ok" /\ TwoTables /\ AllKeysStrings) =>
        ((consumed < Len(arg_tables[1]) \/ consumed < Len(arg_tables[2]))
            => Len(right_table) > Max(ArgRowCounts))

\* C6 amended: the number of rows returned is the number of rows of all
\* tables less the number of left rows consumed by merges; it equals the
\* largest table's row count exactly when as many left rows were consumed
\* as all tables but one largest hold, and is larger otherwise.
C6_RowCount ==
    (pc = "ok" /\ Len(arg_tables) >= 1 /\ NonEmptyArgs) =>
        /\ Len(right_table) = ArgRowTotal - consumed
        /\ (Len(right_table) = Max(ArgRowCounts))
               <=> (consumed = ArgRowTotal - Max(ArgRowCounts))
        /\ (consumed < ArgRowTotal - Max(ArgRowCounts))
               => Len(right_table) > Max(ArgRowCounts)

\* A row of the larger table stays unmatched and the result has exactly as
\* many rows as that table.
C6_Witness ==
    /\ pc = "ok"
    /\ TwoTables
    /\ Len(arg_tables[2]) = 2
    /\ Len(arg_tables[1]) = 1
    /\ consumed = 1
    /\ Len(right_table) = 2

\* C7: with no table outer_join returns an empty list; with one table and
\* one key it returns that table unchanged and runs no merge step, whatever
\* the key path and also when the table is empty.
C7_ZeroOrOneTable ==
    /\ (Len(arg_tables) = 0 /\ pc # "call") =>
           (pc = "ok" /\ right_table = <<>>)
    /\ (Len(arg_tables) = 1 /\ Len(arg_keys) = 1) =>
           /\ pc \in {"call", "loop", "ok"}
           /\ consumed = 0
           /\ pc = "ok" => right_table = arg_tables[1]

\* One table of two rows, one of them without a key value, is returned.
C7_Witness ==
    /\ pc = "ok"
    /\ Len(arg_tables) = 1
    /\ Len(arg_tables[1]) = 2
    /\ arg_tables[1][1]["k1"] = Null
    /\ right_table = arg_tables[1]

\* C8: outer_join returns an error whenever the number of tables differs
\* from the number of key paths, zero tables with keys included.
C8_MismatchIsError ==
    (pc # "call" /\ Len(arg_tables) # Len(arg_keys)) => pc = "err"

\* C9: a row whose join key is Null or absent has the match token
\* "__MISSING__": such a row merges with a row that lacks its key too or
\* whose key text before the first '.' is "__MISSING__", with no other row.
C9_MissingToken ==
    (pc = "ok" /\ TwoTables /\ AllKeysTokens /\ SomeKeyLacking) =>
        LET L == arg_tables[1]
            R == arg_tables[2]
            Lacks(e, k) == Get(e, k) = Null
            Sentinel(e, k) ==
                Lacks(e, k) \/ BeforeDot(Get(e, k)[2]) = MISSING
        IN  /\ (consumed > 0) <=>
                   \E i \in 1..Len(R), j \in 1..Len(L) :
                       \/ /\ Sentinel(R[i], arg_keys[2])
                          /\ Sentinel(L[j], arg_keys[1])
                       \/ /\ ~Lacks(R[i], arg_keys[2])
                          /\ ~Lacks(L[j], arg_keys[1])
                          /\ BeforeDot(R[i][arg_keys[2]][2])
                               = BeforeDot(L[j][arg_keys[1]][2])
            /\ (Len(L) = 1 /\ Len(R) = 1
                  /\ Sentinel(R[1], arg_keys[2]) /\ Sentinel(L[1], arg_keys[1]))
                   => (Len(right_table) = 1 /\ consumed = 1)

\* A left row whose key is the string "__MISSING__" is merged into an
\* accumulator row that has no key column.
C9_Witness ==
    /\ pc = "ok"
    /\ TwoTables
    /\ arg_keys = <<"k1", "k2">>
    /\ Len(arg_tables[1]) = 1
    /\ Len(arg_tables[2]) = 1
    /\ Get(arg_tables[1][1], "k1") = Str(MISSING)
    /\ "k2" \notin DOMAIN arg_tables[2][1]
    /\ Len(right_table) = 1
    /\ consumed = 1

(***************************************************************************)
(* explode_data                                                            *)
(***************************************************************************)
\* Mutant of RemoveAll: only the first entry of the drop list is removed.
RemoveFirstOnly(m, drops) ==
    IF drops = <<>> THEN m ELSE Remove(m, Head(drops))

\* for drop in drops { new_record.remove(drop); }
RECURSIVE RemoveAll(_, _)
RemoveAll(m, drops) ==
    IF drops = <<>> THEN m ELSE RemoveAll(Remove(m, Head(drops)), Tail(drops))

\* for (k, v) in map { new_record.insert(format!("{}.{}", key, k), v.clone()) }
RECURSIVE InsertPrefixed(_, _, _, _)
InsertPrefixed(new_record, path, map, todo) ==
    IF todo = {} THEN new_record
    ELSE LET k == CHOOSE c \in todo : TRUE
         IN  InsertPrefixed(Insert(new_record, path \o "." \o k, map[k]),
                            path, map, todo \ {k})

\* for a in arr { ... }: one row per element; an element that is no Object
\* panics.
RECURSIVE ExplodeArray(_, _, _, _, _)
ExplodeArray(rows, arr, root, path, drops) ==
    IF arr = <<>> THEN [panic |-> FALSE, rows |-> rows]
    ELSE LET a == Head(arr)
             new_record == RemoveAll(root, drops)
         IN  IF IsObj(a)
             THEN ExplodeArray(
                      Append(rows, InsertPrefixed(new_record, path, a[2],
                                                  DOMAIN a[2])),
                      Tail(arr), root, path, drops)
             ELSE [panic |-> TRUE, rows |-> <<>>]

\* data.get(key).unwrap_or(&Value::Null): Value::get gives None on a Value
\* that is no Object.
Child(v, path) == IF IsObj(v) THEN Get(v[2], path) ELSE Null

explode_data(v, path, drops) ==
    IF IsArr(Child(v, path))
    THEN ExplodeArray(<<>>, Child(v, path)[2], v[2], path, drops)
    ELSE [panic |-> TRUE, rows |-> <<>>]

ExplodeData ==
    /\ pc = "call"
    /\ LET r == explode_data(arg_data, arg_key, arg_drops)
       IN  /\ pc' = IF r.panic THEN "panic" ELSE "ok"
           /\ exploded' = r.rows
    /\ UNCHANGED <<arg_data, arg_key, arg_drops, joinVars, filterVars,
                   parseVars, decodeVars, runVars,
                   newVars>>

\* The calls of explode_data examined: a root Object with "a", with or
\* without "b" and "c.foo", and with a child "c" that is absent, Null, a
\* Number or an Array of up to MaxElems elements; an element is a Number or
\* an Object over "foo" and "bar".
Elements ==
    {NumI(9)} \cup
    {Obj(Cell("foo", f) @@ Cell("bar", b)) :
        f \in {Absent, Null, Str(<<"A">>)}, b \in {Absent, Str(<<"B">>)}}

SeqsUpTo(S, n) == UNION {[1..m -> S] : m \in 0..n}

Children == {Absent, Null, NumI(3)} \cup {Arr(a) : a \in SeqsUpTo(Elements, MaxElems)}

Roots ==
    {Obj(("a" :> NumI(1)) @@ Cell("b", b) @@ Cell("c.foo", cf) @@ Cell("c", c)) :
        b \in {Absent, NumI(2)}, cf \in {Absent, Str(<<"o">>)}, c \in Children}

DropLists == SeqsUpTo({"a", "b", "c", "c.foo"}, MaxDrops)

InitExplode ==
    /\ pc = "call"
    /\ JoinIdle
    /\ FilterIdle
    /\ ParseIdle
    /\ DecodeIdle
    /\ RunIdle
    /\ NewIdle
    /\ arg_data \in Roots \cup {Null}
    /\ arg_key \in {"b", "c"}
    /\ arg_drops \in DropLists
    /\ exploded = <<>>

SpecExplode == InitExplode /\ [][ExplodeData]_vars

\* The elements of the array under arg_key, when it is an Array of Objects.
ArrayOfObjects ==
    /\ IsObj(arg_data)
    /\ arg_key \in DOMAIN arg_data[2]
    /\ IsArr(arg_data[2][arg_key])
    /\ \A i \in 1..Len(arg_data[2][arg_key][2]) :
           IsObj(arg_data[2][arg_key][2][i])

DropSet == {arg_drops[i] : i \in 1..Len(arg_drops)}

\* C1: for a root Object whose child at the key is an Array of n Objects,
\* explode_data returns n rows in array order; row i holds the root's
\* columns but those of the drop list, and "<key>.<k>" -> v for every
\* (k, v) of element i; nothing else is added, removed or changed.
C1_ExplodeRows ==
    (pc # "call" /\ ArrayOfObjects) =>
        LET root == arg_data[2]
            arr == arg_data[2][arg_key][2]
            Dotted(i) == {arg_key \o "." \o k : k \in DOMAIN arr[i][2]}
        IN  /\ pc = "ok"
            /\ Len(exploded) = Len(arr)
            /\ \A i \in 1..Len(arr) :
                   /\ DOMAIN exploded[i] = (DOMAIN root \ DropSet) \cup Dotted(i)
                   /\ \A k \in DOMAIN arr[i][2] :
                          exploded[i][arg_key \o "." \o k] = arr[i][2][k]
                   /\ \A c \in DOMAIN exploded[i] \ Dotted(i) :
                          exploded[i][c] = root[c]

\* The case of test_explode_data: two elements with "foo" and "bar", the
\* drop list ["b", "c"], and a root that holds "b".
C1_Witness ==
    /\ pc = "ok"
    /\ ArrayOfObjects
    /\ arg_key = "c"
    /\ arg_drops = <<"b", "c">>
    /\ "b" \in DOMAIN arg_data[2]
    /\ Len(exploded) = 2
    /\ DOMAIN exploded[1] = {"a", "c.foo", "c.bar"}
    /\ DOMAIN exploded[2] = {"a", "c.foo", "c.bar"}

(***************************************************************************)
(* filter_record                                                           *)
(***************************************************************************)
\* The Rust string of a String Value's text.
RECURSIVE Text(_)
Text(chars) == IF chars = <<>> THEN "" ELSE Head(chars) \o Text(Tail(chars))

\* The keys of a predicate Object in the order `for (k, v) in map` visits
\* them (serde_json::Map orders its keys as byte strings).
KeyOrder ==
    <<"AND", "And", "OR", "Or", "aNd", "and", "name", "oR", "op", "or", "value">>
KeyRank(k) == CHOOSE i \in 1..Len(KeyOrder) : KeyOrder[i] = k
FirstKey(map) ==
    CHOOSE k \in DOMAIN map : \A c \in DOMAIN map : KeyRank(k) <= KeyRank(c)

\* Mutant of IsAndKey: the key is compared as written.
IsAndKeyExact(k) == k = "AND"

\* k.eq_ignore_ascii_case("AND"), k.eq_ignore_ascii_case("OR")
IsAndKey(k) == k \in {"AND", "ANd", "AnD", "And", "aND", "aNd", "anD", "and"}
IsOrKey(k) == k \in {"OR", "Or", "oR", "or"}

\* The operator characters outside ASCII, each written as the name of its
\* code point and standing for that one character.
NotEqualSign == "U+2260"
GreaterEqualSign == "U+2265"
LessEqualSign == "U+2264"
ElementOfSign == "U+2208"

AsBool(b) == IF b THEN "true" ELSE "false"

\* Mutant of Ordering: a Null row value satisfies the comparison.
OrderingNullTrue(val, value, holds) ==
    IF IsNull(val) THEN "true"
    ELSE IF ~IsNum(val) \/ ~IsNum(value) THEN "panic"
    ELSE IF holds THEN "true" ELSE "false"

\* val.as_f64().unwrap() OP value.as_f64().unwrap(), after the is_null test.
\* as_f64 is exact on the numbers examined (all below 2^53).
Ordering(val, value, holds) ==
    IF IsNull(val) THEN "false"
    ELSE IF ~IsNum(val) \/ ~IsNum(value) THEN "panic"
    ELSE IF holds THEN "true" ELSE "false"

\* arr.contains(val)
Contains(arr, val) == \E i \in 1..Len(arr) : arr[i] = val

\* Mutant of ValueEq: an Array row value is equal when one of its elements
\* is.
ValueEqAnyElement(val, value) ==
    IF IsArr(val) THEN Contains(val[2], value) ELSE val = value

\* *val == *value of serde_json::Value: the same variant and the same
\* content; an integer Number and a float Number are different.
ValueEq(val, value) == val = value

\* The else branch: a node {"name": .., "op": .., "value": ..}.
FilterCompare(rec, map) ==
    IF "name" \notin DOMAIN map \/ ~IsStr(Get(map, "name")) THEN "panic"
    ELSE IF "op" \notin DOMAIN map \/ ~IsStr(Get(map, "op")) THEN "panic"
    ELSE IF "value" \notin DOMAIN map THEN "panic"
    ELSE LET name == Text(map["name"][2])
             op == Text(map["op"][2])
             value == map["value"]
             val == Get(rec, name)
         IN  CASE op \in {"eq", "=", "=="} -> AsBool(ValueEq(val, value))
               [] op \in {"ne", "!=", NotEqualSign} ->
                    AsBool(~ValueEq(val, value))
               [] op \in {"gt", ">"} ->
                    Ordering(val, value, IsNum(val) /\ IsNum(value)
                                          /\ val[3] > value[3])
               [] op \in {"ge", ">=", GreaterEqualSign} ->
                    Ordering(val, value, IsNum(val) /\ IsNum(value)
                                          /\ val[3] >= value[3])
               [] op \in {"lt", "<"} ->
                    Ordering(val, value, IsNum(val) /\ IsNum(value)
                                          /\ val[3] < value[3])
               [] op \in {"le", "<=", LessEqualSign} ->
                    Ordering(val, value, IsNum(val) /\ IsNum(value)
                                          /\ val[3] <= value[3])
               [] op \in {"in", ElementOfSign} ->
                    IF IsArr(value) THEN AsBool(Contains(value[2], val))
                    ELSE AsBool(ValueEq(val, value))
               [] OTHER -> "panic"

\* Mutant of NonObject: every predicate that is not an Object is "no filter".
NonObjectTrue(node) == "true"

\* The last two arms of `match filters`.
NonObject(node) == IF IsNull(node) THEN "true" ELSE "false"

RECURSIVE filter_record(_, _)

\* Mutant of FilterAll: only the first child is evaluated.
FilterAllFirst(rec, vv) ==
    IF vv = <<>> THEN "true" ELSE filter_record(rec, Head(vv))

\* vv.into_iter().all(|x| filter_record(record, x)): stops at the first
\* child that is false; a child that panics ends the call.
RECURSIVE FilterAll(_, _)
FilterAll(rec, vv) ==
    IF vv = <<>> THEN "true"
    ELSE LET r == filter_record(rec, Head(vv))
         IN  IF r = "true" THEN FilterAll(rec, Tail(vv)) ELSE r

\* vv.into_iter().any(|x| filter_record(record, x)): stops at the first
\* child that is true.
RECURSIVE FilterAny(_, _)
FilterAny(rec, vv) ==
    IF vv = <<>> THEN "false"
    ELSE LET r == filter_record(rec, Head(vv))
         IN  IF r = "false" THEN FilterAny(rec, Tail(vv)) ELSE r

\* Every branch of the `for (k, v) in map` body returns or panics: the
\* first key decides; an Object without keys falls through to `false`.
filter_record(rec, node) ==
    IF IsObj(node)
    THEN IF DOMAIN node[2] = {} THEN "false"
         ELSE LET k == FirstKey(node[2])
                  v == node[2][k]
              IN  IF IsAndKey(k)
                  THEN IF IsArr(v) THEN FilterAll(rec, v[2]) ELSE "panic"
                  ELSE IF IsOrKey(k)
                  THEN IF IsArr(v) THEN FilterAny(rec, v[2]) ELSE "panic"
                  ELSE FilterCompare(rec, node[2])
    ELSE NonObject(node)

FilterRecord ==
    /\ pc = "call"
    /\ pc' = "done"
    /\ verdict' = filter_record(arg_record, arg_filters)
    /\ UNCHANGED <<arg_record, arg_filters, joinVars, explodeVars,
                   parseVars, decodeVars, runVars,
                   newVars>>

\* The predicate trees examined: up to MaxNodes nodes; a node is an AND or
\* an OR over a list of nodes, or one of three comparisons on "baz", the
\* last with an operator filter_record does not know.
Compare(name, op, value) ==
    Obj([k \in {"name", "op", "value"} |->
            CASE k = "name" -> Str(name) [] k = "op" -> Str(op)
              [] OTHER -> value])

Leaves ==
    {Compare(<<"b", "a", "z">>, <<"l", "e">>, NumI(5)),
     Compare(<<"b", "a", "z">>, <<"n", "e">>, Null),
     Compare(<<"b", "a", "z">>, <<"E", "Q">>, NumI(3))}

RECURSIVE TreesOfSize(_), ForestsOfSize(_)
TreesOfSize(n) ==
    IF n = 1
    THEN Leaves \cup {Obj("AND" :> Arr(<<>>)), Obj("OR" :> Arr(<<>>))}
    ELSE {Obj(k :> Arr(f)) : k \in {"AND", "OR"}, f \in ForestsOfSize(n - 1)}
ForestsOfSize(m) ==
    IF m = 0 THEN {<<>>}
    ELSE UNION {{<<t>> \o f : t \in TreesOfSize(n), f \in ForestsOfSize(m - n)} :
                   n \in 1..m}

Trees == UNION {TreesOfSize(n) : n \in 1..MaxNodes}

Records == {EmptyMap, "baz" :> NumI(3), "baz" :> NumI(7)}

\* Single comparisons on "baz": every operator filter_record knows, and
\* "EQ", "Le" and "is", which it does not know; rows whose "baz" is absent,
\* Null, a Number, a String, a Bool or an Array.
OpNames ==
    {<<"e", "q">>, <<"=">>, <<"=", "=">>,
     <<"n", "e">>, <<"!", "=">>, <<NotEqualSign>>,
     <<"g", "t">>, <<">">>,
     <<"g", "e">>, <<">", "=">>, <<GreaterEqualSign>>,
     <<"l", "t">>, <<"<">>,
     <<"l", "e">>, <<"<", "=">>, <<LessEqualSign>>,
     <<"i", "n">>, <<ElementOfSign>>,
     <<"E", "Q">>, <<"L", "e">>, <<"i", "s">>}

PredicateValues ==
    {Null, NumI(3), NumI(5), NumF(5), Str(<<"b">>), Bool(TRUE),
     Arr(<<NumI(3)>>), Arr(<<NumI(3), Null>>)}

Comparisons ==
    {Compare(<<"b", "a", "z">>, op, value) :
        op \in OpNames, value \in PredicateValues}

Rows ==
    {EmptyMap} \cup
    {"baz" :> v : v \in {Null, NumI(3), NumI(7), NumF(5), Str(<<"b">>),
                         Bool(TRUE), Arr(<<NumI(3)>>)}}

\* Predicates that are not an Object.
Shapes ==
    {Null, Bool(TRUE), Bool(FALSE), NumI(1), Str(<<"x">>), Arr(<<>>),
     Arr(<<Compare(<<"b", "a", "z">>, <<"n", "e">>, Null)>>)}

\* An AND or an OR key written in upper, lower or mixed case, over two
\* comparisons.
CaseTrees ==
    {Obj(k :> Arr(<<l1, l2>>)) :
        k \in {"AND", "And", "aNd", "and", "OR", "Or", "oR", "or"},
        l1 \in Leaves, l2 \in Leaves}

FilterCall ==
    \/ arg_record \in Records /\ arg_filters \in Trees
    \/ arg_record \in Rows /\ arg_filters \in Comparisons \cup Shapes
    \/ arg_record \in Records /\ arg_filters \in CaseTrees

InitFilter ==
    /\ pc = "call"
    /\ JoinIdle
    /\ ExplodeIdle
    /\ ParseIdle
    /\ DecodeIdle
    /\ RunIdle
    /\ NewIdle
    /\ verdict = "none"
    /\ FilterCall

SpecFilter == InitFilter /\ [][FilterRecord]_vars

\* The children of an AND or OR node.
IsAndNode(node) == IsObj(node) /\ DOMAIN node[2] = {"AND"}
IsOrNode(node) == IsObj(node) /\ DOMAIN node[2] = {"OR"}
ChildrenOf(node) ==
    LET vv == node[2][IF IsAndNode(node) THEN "AND" ELSE "OR"][2]
    IN  {vv[i] : i \in 1..Len(vv)}

\* The truth of a tree by the rule of the specification: an AND is true iff
\* every child is, an OR iff some child is, a comparison iff it evaluates
\* true on the row.
RECURSIVE Holds(_, _)
Holds(rec, node) ==
    IF IsAndNode(node) THEN \A c \in ChildrenOf(node) : Holds(rec, c)
    ELSE IF IsOrNode(node) THEN \E c \in ChildrenOf(node) : Holds(rec, c)
    ELSE FilterCompare(rec, node[2]) = "true"

\* No comparison of the tree fails on the row.
RECURSIVE NoFailure(_, _)
NoFailure(rec, node) ==
    IF IsAndNode(node) \/ IsOrNode(node)
    THEN \A c \in ChildrenOf(node) : NoFailure(rec, c)
    ELSE FilterCompare(rec, node[2]) # "panic"

RECURSIVE Depth(_)
Depth(node) ==
    IF IsAndNode(node) \/ IsOrNode(node)
    THEN 1 + Max({0} \cup {Depth(c) : c \in ChildrenOf(node)})
    ELSE 1

\* C10: filter_record on an AND node returns true iff every child evaluates
\* true (no child: true), on an OR node iff some child evaluates true (no
\* child: false), at every nesting depth; it returns a boolean whenever no
\* comparison of the tree fails.
C10_AndOr ==
    (pc = "done" /\ (IsAndNode(arg_filters) \/ IsOrNode(arg_filters))) =>
        /\ verdict \in {"true", "false"} =>
               (verdict = "true" <=> Holds(arg_record, arg_filters))
        /\ NoFailure(arg_record, arg_filters) => verdict \in {"true", "false"}
        /\ ChildrenOf(arg_filters) = {} =>
               verdict = (IF IsAndNode(arg_filters) THEN "true" ELSE "false")

\* An AND over an OR that holds a false and a true child, nested three
\* deep, evaluates true.
C10_Witness ==
    /\ pc = "done"
    /\ IsAndNode(arg_filters)
    /\ Depth(arg_filters) >= 3
    /\ \E c \in ChildrenOf(arg_filters) :
           /\ IsOrNode(c)
           /\ \E x, y \in ChildrenOf(c) :
                  Holds(arg_record, x) /\ ~Holds(arg_record, y)
    /\ verdict = "true"

\* The comparison a predicate Object holds, when it is one.
IsComparison(node) == IsObj(node) /\ DOMAIN node[2] = {"name", "op", "value"}
OpOf(node) == Text(node[2]["op"][2])
RowValue(node) == Get(arg_record, Text(node[2]["name"][2]))

EqOps == {"eq", "=", "=="}
NeOps == {"ne", "!=", NotEqualSign}
GtOps == {"gt", ">"}
GeOps == {"ge", ">=", GreaterEqualSign}
LtOps == {"lt", "<"}
LeOps == {"le", "<=", LessEqualSign}
InOps == {"in", ElementOfSign}
OrderingOps == GtOps \cup GeOps \cup LtOps \cup LeOps
SupportedOps == EqOps \cup NeOps \cup OrderingOps \cup InOps

\* C11: filter_record returns true for every row when the predicate is Null
\* and false for every row when the predicate is a Bool, a Number, a String
\* or an Array.
C11_NonObject ==
    (pc = "done" /\ ~IsObj(arg_filters)) =>
        verdict = (IF arg_filters = Null THEN "true" ELSE "false")

\* An Array that holds a comparison true of the row is itself evaluated
\* false.
C11_Witness ==
    /\ pc = "done"
    /\ IsArr(arg_filters)
    /\ arg_filters[2] # <<>>
    /\ filter_record(arg_record, arg_filters[2][1]) = "true"
    /\ verdict = "false"

\* The numeric comparison an ordering operator names.
Numerically(op, x, y) ==
    CASE op \in GtOps -> x > y
      [] op \in GeOps -> x >= y
      [] op \in LtOps -> x < y
      [] op \in LeOps -> x <= y

RECURSIVE HasUnknownOp(_)
HasUnknownOp(node) ==
    IF IsAndNode(node) \/ IsOrNode(node)
    THEN \E c \in ChildrenOf(node) : HasUnknownOp(c)
    ELSE IsComparison(node) /\ OpOf(node) \notin SupportedOps

\* C14: a predicate tree that holds a comparison with an unknown operator,
\* at whatever position, never evaluates to true or false.
C14_UnknownOpIsFatal ==
    (pc = "done" /\ IsObj(arg_filters) /\ HasUnknownOp(arg_filters)) =>
        verdict \notin {"true", "false"}

\* The children of a node with one key, in order.
Kids(node) == node[2][CHOOSE k \in DOMAIN node[2] : TRUE][2]

Failure == [ok |-> FALSE, val |-> Null, pos |-> 0]
Success(v, p) == [ok |-> TRUE, val |-> v, pos |-> p]

\* The byte at position p; "EOF" past the end.
Byte(inp, p) == IF p <= Len(inp) THEN inp[p] ELSE "EOF"

\* one_of(set).repeat(0..): the position after the longest run.
RECURSIVE Many(_, _, _)
Many(set, inp, p) == IF Byte(inp, p) \in set THEN Many(set, inp, p + 1) ELSE p

\* seq(tok)
StartsWith(inp, p, tok) ==
    /\ p + Len(tok) - 1 <= Len(inp)
    /\ SubSeq(inp, p, p + Len(tok) - 1) = tok

SpaceBytes == {" ", "\t", "\r", "\n"}
Digits == {"0", "1", "2", "3", "4", "5", "6", "7", "8", "9"}
IdentBytes ==
    {".", "_"} \cup Digits \cup
    {"a", "b", "c", "d", "e", "f", "g", "h", "i", "j", "k", "l", "m",
     "n", "o", "p", "q", "r", "s", "t", "u", "v", "w", "x", "y", "z",
     "A", "B", "C", "D", "E", "F", "G", "H", "I", "J", "K", "L", "M",
     "N", "O", "P", "Q", "R", "S", "T", "U", "V", "W", "X", "Y", "Z"}

space(inp, p) == Many(SpaceBytes, inp, p)

ident(inp, p) ==
    LET q == Many(IdentBytes, inp, p)
    IN  IF q > p THEN Success(Str(SubSeq(inp, p, q - 1)), q) ELSE Failure

\* The alternatives of operator(), in the order they are tried.
OperatorTokens ==
    << <<"=", "=">>, <<"i", "s">>, <<"=">>, <<"<", "=">>, <<">", "=">>,
       <<"!", "=">>, <<"<">>, <<">">>, <<"e", "q">>, <<"n", "e">>,
       <<"g", "t">>, <<"g", "e">>, <<"l", "t">>, <<"l", "e">>, <<"i", "n">>,
       <<GreaterEqualSign>>, <<LessEqualSign>> >>

\* a | b | c ...: the first alternative that matches; 0 when none does.
FirstMatch(toks, inp, p) ==
    LET hits == {i \in 1..Len(toks) : StartsWith(inp, p, toks[i])}
    IN  IF hits = {} THEN 0 ELSE Min(hits)

operator(inp, p) ==
    LET i == FirstMatch(OperatorTokens, inp, p)
    IN  IF i = 0 THEN Failure
        ELSE Success(Str(OperatorTokens[i]), p + Len(OperatorTokens[i]))

DigitVal(c) ==
    CASE c = "0" -> 0 [] c = "1" -> 1 [] c = "2" -> 2 [] c = "3" -> 3
      [] c = "4" -> 4 [] c = "5" -> 5 [] c = "6" -> 6 [] c = "7" -> 7
      [] c = "8" -> 8 [] c = "9" -> 9

\* The number a sequence of digits writes.
RECURSIVE NatOf(_)
NatOf(ds) ==
    IF ds = <<>> THEN 0
    ELSE 10 * NatOf(SubSeq(ds, 1, Len(ds) - 1)) + DigitVal(ds[Len(ds)])

RECURSIVE Pow10(_)
Pow10(n) == IF n = 0 THEN 1 ELSE 10 * Pow10(n - 1)

\* Value::from(f64) of mant * 10^e10: a float Number.  A whole number n is
\* NumF(n); any other is written <<"num", "d", mant, e10>> with mant not a
\* multiple of ten.  The literals examined are finite.
RECURSIVE FloatOf(_, _)
FloatOf(mant, e10) ==
    IF mant = 0 THEN NumF(0)
    ELSE IF e10 >= 0 THEN NumF(mant * Pow10(e10))
    ELSE IF mant % 10 = 0 THEN FloatOf(mant \div 10, e10 + 1)
    ELSE <<"num", "d", mant, e10>>

\* integer part of real_number(): the position after it, 0 when there is
\* none.
IntEnd(inp, s1) ==
    IF Byte(inp, s1) \in Digits \ {"0"} THEN Many(Digits, inp, s1 + 1)
    ELSE IF Byte(inp, s1) = "0" THEN s1 + 1 ELSE 0

\* frac.opt(): '.' and at least one digit, from the position s2.
FracEnd(inp, s2) ==
    IF Byte(inp, s2) = "." /\ Byte(inp, s2 + 1) \in Digits
    THEN Many(Digits, inp, s2 + 1) ELSE s2

\* The position of the first digit of an exponent that starts at s3.
ExpDigits(inp, s3) == IF Byte(inp, s3 + 1) \in {"+", "-"} THEN s3 + 2 ELSE s3 + 1

\* exp.opt(): 'e' or 'E', an optional sign and at least one digit.
ExpEnd(inp, s3) ==
    IF Byte(inp, s3) \in {"e", "E"} /\ Byte(inp, ExpDigits(inp, s3)) \in Digits
    THEN Many(Digits, inp, ExpDigits(inp, s3)) ELSE s3

\* f64::from_str of the collected bytes: the sign ends before s1, the
\* integer part before s2, the fraction before s3, the exponent before s4.
F64(inp, p, s1, s2, s3, s4) ==
    LET frac == SubSeq(inp, s2 + 1, s3 - 1)
        exp == IF s4 > s3
               THEN (IF Byte(inp, s3 + 1) = "-" THEN -1 ELSE 1)
                        * NatOf(SubSeq(inp, ExpDigits(inp, s3), s4 - 1))
               ELSE 0
        mant == (IF s1 > p THEN -1 ELSE 1)
                    * (NatOf(SubSeq(inp, s1, s2 - 1)) * Pow10(Len(frac))
                         + NatOf(frac))
    IN  FloatOf(mant, exp - Len(frac))

\* real_number(): '-'? integer frac? exp?, collected and read by
\* f64::from_str.
real_number(inp, p) ==
    LET s1 == IF Byte(inp, p) = "-" THEN p + 1 ELSE p
        s2 == IntEnd(inp, s1)
        s3 == FracEnd(inp, s2)
        s4 == ExpEnd(inp, s3)
    IN  IF s2 = 0 THEN Failure
        ELSE Success(F64(inp, p, s1, s2, s3, s4), s4)

\* integer(): its output is the u8 that one_of / sym matched, the byte of
\* the first digit.
integer(inp, p) ==
    IF Byte(inp, p) \in Digits \ {"0"}
    THEN Success(NumI(48 + DigitVal(inp[p])), Many(Digits, inp, p + 1))
    ELSE IF Byte(inp, p) = "0" THEN Success(NumI(48), p + 1)
    ELSE Failure

\* str(): '"' none_of('"')* '"'
RECURSIVE UntilQuote(_, _)
UntilQuote(inp, p) ==
    IF Byte(inp, p) \in {"\"", "EOF"} THEN p ELSE UntilQuote(inp, p + 1)

str(inp, p) ==
    LET q == UntilQuote(inp, p + 1)
    IN  IF Byte(inp, p) = "\"" /\ Byte(inp, q) = "\""
        THEN Success(Str(SubSeq(inp, p + 1, q - 1)), q + 1)
        ELSE Failure

\* (seq(b"t") | seq(b"T")) + (seq(b"r") | seq(b"R")) + ...
Word(letters, inp, p) ==
    \A i \in 1..Len(letters) : Byte(inp, p + i - 1) \in letters[i]

TrueWord == <<{"t", "T"}, {"r", "R"}, {"u", "U"}, {"e", "E"}>>
FalseWord == <<{"f", "F"}, {"a", "A"}, {"l", "L"}, {"s", "S"}, {"e", "E"}>>
NoneWord == <<{"n", "N"}, {"o", "O"}, {"n", "N"}, {"e", "E"}>>
AndWord == <<{"a", "A"}, {"n", "N"}, {"d", "D"}>>
OrWord == <<{"o", "O"}, {"r", "R"}>>

\* bool(): both alternatives are mapped to Value::Bool(true).
bool(inp, p) ==
    IF Word(TrueWord, inp, p) THEN Success(Bool(TRUE), p + 4)
    ELSE IF Word(FalseWord, inp, p) THEN Success(Bool(TRUE), p + 5)
    ELSE Failure

none(inp, p) ==
    IF Word(NoneWord, inp, p) THEN Success(Null, p + 4) ELSE Failure

\* a | b
OrElse(a, b) == IF a.ok THEN a ELSE b

\* a - space(): the result r of a, with the blanks after it skipped.
SkipSpace(inp, r) ==
    IF r.ok THEN Success(r.val, space(inp, r.pos)) ELSE Failure

\* The alternatives of value(), in the order they are tried.
Literal(inp, q) ==
    OrElse(real_number(inp, q),
    OrElse(integer(inp, q),
    OrElse(str(inp, q),
    OrElse(bool(inp, q),
    OrElse(none(inp, q), ident(inp, q))))))

value(inp, p) == SkipSpace(inp, Literal(inp, space(inp, p)))

\* list(value(), sym(b',').opt() * space()): an item r read at p is kept
\* and followed by a separator and the next item; the list ends before the
\* first item that does not match.
RECURSIVE ListMore(_, _, _), ListItem(_, _, _, _)
ListItem(inp, items, p, r) ==
    IF r.ok THEN ListMore(inp, Append(items, r.val), r.pos)
    ELSE Success(Arr(items), p)

ListMore(inp, items, p) ==
    ListItem(inp, items, p,
             value(inp, space(inp, IF Byte(inp, p) = "," THEN p + 1 ELSE p)))

list(inp, p) == ListItem(inp, <<>>, p, value(inp, p))

\* (lparen() * list(..) - rparen()).map(|g| json!(g)) | value(), with the
\* list l read after the byte at q.
Group(inp, q, l) ==
    IF Byte(inp, q) = "(" /\ Byte(inp, l.pos) = ")"
    THEN Success(l.val, l.pos + 1)
    ELSE value(inp, q)

property_val(inp, p) ==
    LET q == space(inp, p)
    IN  SkipSpace(inp, Group(inp, q, list(inp, q + 1)))

\* json!({"name": lval, "op": op, "value": rval})
Comparison(lval, op, rval) ==
    Obj([k \in {"name", "op", "value"} |->
            CASE k = "name" -> lval [] k = "op" -> op [] OTHER -> rval])

\* json!({"AND": [l, r]}), json!({"OR": [l, r]})
Pair(k, l, r) == Obj(k :> Arr(<<l, r>>))

\* a + b: b is applied where a ended, and fails when a failed.
After(a, b) == IF a.ok THEN b ELSE Failure

RECURSIVE boolean_condition(_, _), boolean_expression(_, _)

\* (property_val() + operator() + property_val()).map(..), with the left
\* value l, the operator o and the right value r.
TripleEnd(l, o, r) ==
    IF r.ok THEN Success(Comparison(l.val, o.val, r.val), r.pos) ELSE Failure

TripleFrom(inp, l) ==
    LET o == After(l, operator(inp, l.pos))
    IN  TripleEnd(l, o, After(o, property_val(inp, o.pos)))

Triple(inp, p) == TripleFrom(inp, property_val(inp, p))

\* lparen() * call(boolean_expression) - rparen(), with the expression e
\* read after the "(".
Closed(inp, e) ==
    IF e.ok /\ Byte(inp, e.pos) = ")" THEN Success(e.val, e.pos + 1)
    ELSE Failure

Parenthesised(inp, p) ==
    Closed(inp, IF Byte(inp, p) = "(" THEN boolean_expression(inp, p + 1)
                ELSE Failure)

boolean_condition(inp, p) ==
    LET q == space(inp, p)
    IN  SkipSpace(inp, OrElse(Triple(inp, q), Parenthesised(inp, q)))

\* and(), or()
and(inp, p) == IF Word(AndWord, inp, p) THEN Success(Null, p + 3) ELSE Failure
or(inp, p) == IF Word(OrWord, inp, p) THEN Success(Null, p + 2) ELSE Failure

\* and_or(): the key of the node
and_or(inp, p) ==
    IF and(inp, p).ok THEN Success("AND", p + 3)
    ELSE IF or(inp, p).ok THEN Success("OR", p + 2)
    ELSE Failure

\* (a + kw * b).map(|(l, r)| json!({k: [l, r]})) | a, with the result l of
\* a and the result r of the keyword and b.
Node(k, l, r) == IF r.ok THEN Success(Pair(k, l.val, r.val), r.pos) ELSE l

ExpressionFrom(inp, c) ==
    LET k == After(c, and_or(inp, c.pos))
    IN  Node(k.val, c, After(k, boolean_expression(inp, k.pos)))

boolean_expression(inp, p) == ExpressionFrom(inp, boolean_condition(inp, p))

\* Mutants of Node and and_expression: the operands are stored right
\* before left.
NodeSwapped(k, l, r) ==
    IF r.ok THEN Success(Pair(k, r.val, l.val), r.pos) ELSE l

AndFromSwapped(inp, l) ==
    LET k == After(l, and(inp, l.pos))
    IN  NodeSwapped("AND", l, After(k, boolean_condition(inp, k.pos)))

AndFrom(inp, l) ==
    LET k == After(l, and(inp, l.pos))
    IN  Node("AND", l, After(k, boolean_condition(inp, k.pos)))

and_expressionSwapped(inp, p) == AndFromSwapped(inp, boolean_condition(inp, p))

and_expression(inp, p) == AndFrom(inp, boolean_condition(inp, p))

\* Mutant of or_expression: a chain of ORs is folded to the right.
RECURSIVE or_expressionChain(_, _)
OrFromChain(inp, l) ==
    LET k == After(l, or(inp, l.pos))
    IN  Node("OR", l, After(k, or_expressionChain(inp, k.pos)))

OrFrom(inp, l) ==
    LET k == After(l, or(inp, l.pos))
    IN  Node("OR", l, After(k, and_expression(inp, k.pos)))

or_expressionChain(inp, p) == OrFromChain(inp, and_expression(inp, p))

or_expression(inp, p) == OrFrom(inp, and_expression(inp, p))

\* - end(): the whole input was read.
Ended(inp, r) ==
    IF r.ok /\ r.pos = Len(inp) + 1 THEN <<"ok", r.val>> ELSE <<"err">>

\* (space() * or_expression() - end()).parse(input.as_bytes())
parse_logic_expr(inp) == Ended(inp, or_expression(inp, space(inp, 1)))

ParseLogicExpr ==
    /\ pc = "call"
    /\ pc' = "done"
    /\ parsed' = parse_logic_expr(arg_input)
    /\ UNCHANGED <<arg_input, joinVars, explodeVars, filterVars, decodeVars,
                   runVars, newVars>>

\* The expressions examined.  Chains: up to MaxConds comparisons, joined by
\* AND / OR keywords in upper, lower and mixed case, bare or with one pair
\* of parentheses around a run of them.  Single comparisons: a name, one of
\* the operators and a literal, with and without blanks around the
\* operator.
CondTexts ==
    << <<"f", "o", "o", " ", "=", "=", " ", "b", "a", "r">>,
       <<"b", "a", "z", " ", ">", " ", "1", "0">>,
       <<"b", "a", "z", "<", "=", "5">>,
       <<"q", " ", "n", "e", " ", "n", "o", "n", "e">> >>
CondText(i) == CondTexts[((i - 1) % Len(CondTexts)) + 1]

Keywords ==
    {<<"A", "N", "D">>, <<"a", "n", "d">>, <<"a", "N", "d">>, <<"O", "R">>,
     <<"o", "r">>, <<"O", "r">>}

\* The text of comparisons i..n, keyword kws[j] between j and j + 1, with
\* "(" before comparison lo and ")" after comparison hi.
RECURSIVE Chain(_, _, _, _, _)
Chain(i, n, kws, lo, hi) ==
    (IF i = lo THEN <<"(">> ELSE <<>>) \o CondText(i)
        \o (IF i = hi THEN <<")">> ELSE <<>>)
        \o (IF i = n THEN <<>>
            ELSE <<" ">> \o kws[i] \o <<" ">> \o Chain(i + 1, n, kws, lo, hi))

Ranges(n) == {<<0, 0>>} \cup {<<lo, hi>> \in (1..n) \X (1..n) : lo <= hi}

Chains ==
    {Chain(1, n, kws, r[1], r[2]) :
        n \in {MaxConds}, kws \in [1..(MaxConds - 1) -> Keywords],
        r \in Ranges(MaxConds)}
    \cup UNION {{Chain(1, n, kws, r[1], r[2]) :
                    kws \in [1..(n - 1) -> Keywords], r \in Ranges(n)} :
                n \in 1..(MaxConds - 1)}

NameTexts ==
    {<<"f", "o", "o">>, <<"f", "l", "a", "g">>, <<"n", "o", "n", "e", "x">>}

LiteralTexts ==
    {<<"b", "a", "r">>,
     <<"x", ".", "y">>,
     <<"1", "0">>,
     <<"0">>,
     <<"-", "5">>,
     <<"1", ".", "5">>,
     <<"0", ".", "5", "0">>,
     <<"2", "e", "1">>,
     <<"\"", "s", " ", "t", "\"">>,
     <<"t", "r", "u", "e">>,
     <<"T", "r", "u", "e">>,
     <<"t", "R", "U", "E">>,
     <<"f", "a", "l", "s", "e">>,
     <<"F", "a", "l", "s", "e">>,
     <<"F", "A", "L", "S", "E">>,
     <<"n", "o", "n", "e">>,
     <<"N", "o", "n", "e">>,
     <<"(", "1", ",", "2", ")">>,
     <<"(", "1", " ", "b", "a", "r", ")">>,
     <<"(", ")">>}

OperatorTexts == {OperatorTokens[i] : i \in 1..Len(OperatorTokens)}

Singles ==
    {a \o sp \o op \o sp \o b :
        a \in NameTexts, op \in OperatorTexts, b \in LiteralTexts,
        sp \in {<<>>, <<" ">>}}

InitParse ==
    /\ pc = "call"
    /\ JoinIdle
    /\ ExplodeIdle
    /\ FilterIdle
    /\ DecodeIdle
    /\ RunIdle
    /\ NewIdle
    /\ arg_input \in Chains \cup Singles
    /\ parsed = <<"none">>

SpecParse == InitParse /\ [][ParseLogicExpr]_vars

\* The tree each comparison of CondTexts stands for.
CondTree(i) ==
    << Compare(<<"f", "o", "o">>, <<"=", "=">>, Str(<<"b", "a", "r">>)),
       Compare(<<"b", "a", "z">>, <<">">>, NumF(10)),
       Compare(<<"b", "a", "z">>, <<"<", "=">>, NumF(5)),
       Compare(<<"q">>, <<"n", "e">>, Null) >>[((i - 1) % 4) + 1]

\* The Value each literal writes: a number is a float Number, a quoted or
\* bare word a String, true a Bool, none Null, a parenthesised list an Array.
Written ==
    (<<"b", "a", "r">> :> Str(<<"b", "a", "r">>)) @@
    (<<"x", ".", "y">> :> Str(<<"x", ".", "y">>)) @@
    (<<"1", "0">> :> NumF(10)) @@
    (<<"0">> :> NumF(0)) @@
    (<<"-", "5">> :> NumF(-5)) @@
    (<<"1", ".", "5">> :> <<"num", "d", 15, -1>>) @@
    (<<"0", ".", "5", "0">> :> <<"num", "d", 5, -1>>) @@
    (<<"2", "e", "1">> :> NumF(20)) @@
    (<<"\"", "s", " ", "t", "\"">> :> Str(<<"s", " ", "t">>)) @@
    (<<"t", "r", "u", "e">> :> Bool(TRUE)) @@
    (<<"T", "r", "u", "e">> :> Bool(TRUE)) @@
    (<<"t", "R", "U", "E">> :> Bool(TRUE)) @@
    (<<"n", "o", "n", "e">> :> Null) @@
    (<<"N", "o", "n", "e">> :> Null) @@
    (<<"(", "1", ",", "2", ")">> :> Arr(<<NumF(1), NumF(2)>>)) @@
    (<<"(", "1", " ", "b", "a", "r", ")">> :> Arr(<<NumF(1), Str(<<"b", "a", "r">>)>>)) @@
    (<<"(", ")">> :> Arr(<<>>))

KeyOf(kw) == IF Len(kw) = 3 THEN "AND" ELSE "OR"
Blanks == {<<>>, <<" ">>}
Bare(n, kws) == Chain(1, n, kws, 0, 0)

\* C16: a comparison `a OP b` that parses gives {"name": a, "op": OP,
\* "value": b} with OP as written, and it parses when a is a plain name and
\* OP is set off from it; `L AND R` and `L OR R`, the keyword in any case,
\* give {"AND": [L, R]} and {"OR": [L, R]}; `c1 AND c2 OR c3` gives
\* {"OR": [{"AND": [c1, c2]}, c3]} and `c1 OR c2 AND c3` gives
\* {"OR": [c1, {"AND": [c2, c3]}]}.
C16_Trees ==
    pc = "done" =>
        /\ \A a \in NameTexts, sp \in Blanks, op \in OperatorTexts :
               LET head == a \o sp \o op \o sp
                   b == SubSeq(arg_input, Len(head) + 1, Len(arg_input))
               IN  (StartsWith(arg_input, 1, head) /\ b \in DOMAIN Written) =>
                       /\ parsed[1] = "ok" =>
                              parsed[2] = Compare(a, op, Written[b])
                       /\ (a # <<"n", "o", "n", "e", "x">>
                             /\ (sp # <<>> \/ op[1] \notin IdentBytes)) =>
                              parsed[1] = "ok"
        /\ \A k \in Keywords :
               arg_input = Bare(2, <<k>>) =>
                   parsed = <<"ok", Pair(KeyOf(k), CondTree(1), CondTree(2))>>
        /\ \A k1, k2 \in Keywords :
               arg_input = Bare(3, <<k1, k2>>) =>
                   /\ (KeyOf(k1) = "AND" /\ KeyOf(k2) = "OR") =>
                          parsed = <<"ok", Pair("OR", Pair("AND", CondTree(1),
                                                          CondTree(2)),
                                                CondTree(3))>>
                   /\ (KeyOf(k1) = "OR" /\ KeyOf(k2) = "AND") =>
                          parsed = <<"ok", Pair("OR", CondTree(1),
                                                Pair("AND", CondTree(2),
                                                     CondTree(3)))>>

\* `foo == bar and baz > 10 Or baz<=5` has been parsed into an OR node.
C16_Witness ==
    /\ pc = "done"
    /\ arg_input = Bare(3, <<<<"a", "n", "d">>, <<"O", "r">>>>)
    /\ parsed[1] = "ok"
    /\ DOMAIN parsed[2][2] = {"OR"}

\* C17: `(E)` is accepted or rejected as E is and, when accepted, gives
\* the tree of E.
C17_ParenSameGrammar ==
    pc = "done" =>
        \A n \in 1..MaxConds :
            \A kws \in [1..(n - 1) -> Keywords] :
                arg_input = Chain(1, n, kws, 1, n) =>
                    parsed = parse_logic_expr(Bare(n, kws))

\* C18: a bare chain of three or more comparisons joined by ANDs only, or
\* by ORs only, is not compiled: parse_logic_expr returns an error, the
\* rule having stopped before the end of the input.
C18_ChainIsError ==
    pc = "done" =>
        \A n \in 3..MaxConds :
            \A kws \in [1..(n - 1) -> Keywords] :
                (arg_input = Bare(n, kws)
                    /\ \A i \in 1..(n - 1) : KeyOf(kws[i]) = KeyOf(kws[1])) =>
                    /\ parsed = <<"err">>
                    /\ LET r == or_expression(arg_input, 1)
                       IN  r.ok /\ r.pos <= Len(arg_input)

\* `foo == bar OR baz > 10 or baz<=5` has been rejected.
C18_Witness ==
    /\ pc = "done"
    /\ arg_input = Bare(3, <<<<"O", "R">>, <<"o", "r">>>>)
    /\ parsed = <<"err">>

\* C19: in `flag == LITERAL` the literal true, in any case, gives the Bool
\* true, the literal false, in any case, the Bool false, and none gives
\* Null.
C19_Literals ==
    pc = "done" =>
        \A sp \in Blanks :
            \A b \in LiteralTexts :
                (arg_input = <<"f", "l", "a", "g">> \o sp \o <<"=", "=">> \o sp \o b
                    /\ (Word(TrueWord, b, 1) \/ Word(FalseWord, b, 1)
                           \/ Word(NoneWord, b, 1))) =>
                    parsed = <<"ok", Compare(<<"f", "l", "a", "g">>, <<"=", "=">>,
                                 IF Word(NoneWord, b, 1) THEN Null
                                 ELSE Bool(Word(TrueWord, b, 1)))>>

(***************************************************************************)
(* Variant::new: the decoding of one INFO field.  A field of the header is *)
(* [id, value_type, number, subfields], subfields being <<"some", names>>  *)
(* when csq_headers holds the field and <<"none">> otherwise; the data of  *)
(* the record is <<"None">> or <<"Some", tokens>>, each token a sequence   *)
(* of bytes.  A result is <<"ok", v>>, <<"err">> or <<"panic">>.           *)
(***************************************************************************)
\* A byte that is not UTF-8.
InvalidByte == "0xFF"

\* str::from_utf8(x) is Ok
Utf8(x) == InvalidByte \notin {x[i] : i \in 1..Len(x)}

\* s.split(sep)
RECURSIVE Split(_, _, _)
Split(s, sep, piece) ==
    IF s = <<>> THEN <<piece>>
    ELSE IF Head(s) = sep THEN <<piece>> \o Split(Tail(s), sep, <<>>)
    ELSE Split(Tail(s), sep, Append(piece, Head(s)))

IsDigits(s) == s # <<>> /\ \A i \in 1..Len(s) : s[i] \in Digits

\* str::parse::<i64>(): an optional sign and one or more digits.  The
\* numbers examined fit an i64.
ParseI64(s) ==
    LET signed == s # <<>> /\ s[1] \in {"+", "-"}
        ds == IF signed THEN Tail(s) ELSE s
    IN  IF IsDigits(ds)
        THEN <<"ok", (IF signed /\ s[1] = "-" THEN -1 ELSE 1) * NatOf(ds)>>
        ELSE <<"err">>

InfWords ==
    {<<{"i", "I"}, {"n", "N"}, {"f", "F"}>>,
     <<{"n", "N"}, {"a", "A"}, {"n", "N"}>>,
     <<{"i", "I"}, {"n", "N"}, {"f", "F"}, {"i", "I"}, {"n", "N"},
       {"i", "I"}, {"t", "T"}, {"y", "Y"}>>}

\* The decimal exponent above which every f64 read is infinite.
MaxExp10 == 309

\* str::parse::<f64>(): Sign? ('inf' | 'infinity' | 'nan' | Number), Number
\* being (Digit+ | Digit+ '.' Digit* | Digit* '.' Digit+) Exp?.  The result
\* is <<"ok", f>> with f a float Number or <<"nonfinite">>, or <<"err">>.
ParseF64(s) ==
    LET signed == s # <<>> /\ s[1] \in {"+", "-"}
        r == IF signed THEN Tail(s) ELSE s
        i1 == Many(Digits, r, 1)
        hasDot == Byte(r, i1) = "."
        f0 == IF hasDot THEN i1 + 1 ELSE i1
        f1 == Many(Digits, r, f0)
        int == SubSeq(r, 1, i1 - 1)
        frac == SubSeq(r, f0, f1 - 1)
        hasE == Byte(r, f1) \in {"e", "E"}
        e0 == IF Byte(r, f1 + 1) \in {"+", "-"} THEN f1 + 2 ELSE f1 + 1
        e1 == Many(Digits, r, e0)
        exp == IF hasE
               THEN (IF Byte(r, f1 + 1) = "-" THEN -1 ELSE 1)
                        * NatOf(SubSeq(r, e0, e1 - 1))
               ELSE 0
        last == IF hasE THEN e1 ELSE f1
        mant == (IF signed /\ s[1] = "-" THEN -1 ELSE 1)
                    * (NatOf(int) * Pow10(Len(frac)) + NatOf(frac))
    IN  IF \E w \in InfWords : Len(r) = Len(w) /\ Word(w, r, 1)
        THEN <<"ok", <<"nonfinite">>>>
        ELSE IF \/ Len(int) + Len(frac) = 0
                \/ hasE /\ e1 = e0
                \/ last # Len(r) + 1
        THEN <<"err">>
        ELSE IF mant # 0 /\ Len(int) + exp > MaxExp10
        THEN <<"ok", <<"nonfinite">>>>
        ELSE <<"ok", FloatOf(mant, exp - Len(frac))>>

\* Value::from(f64), Value::from(Number::from_f64(f)): Null when f is not
\* finite.
ValueOfF64(f) == IF f = <<"nonfinite">> THEN Null ELSE f

\* utils::try_parse_number
try_parse_number(input) ==
    IF \E i \in 1..Len(input) : input[i] \in {".", "e", "E"}
    THEN LET f == ParseF64(input)
         IN  IF f[1] = "err" THEN <<"ok", Str(input)>>
             ELSE IF f[2] = <<"nonfinite">> THEN <<"panic">>
             ELSE <<"ok", f[2]>>
    ELSE IF input = <<>> THEN <<"ok", Null>>
    ELSE LET n == ParseI64(input)
         IN  IF n[1] = "ok" THEN <<"ok", NumI(n[2])>> ELSE <<"ok", Str(input)>>

\* for (k, v) in names.iter().zip(pieces) { csq.insert(k, try_parse_number(v)) }
RECURSIVE Zip(_, _, _)
Zip(csq, names, pieces) ==
    IF names = <<>> \/ pieces = <<>> THEN <<"ok", Obj(csq)>>
    ELSE LET v == try_parse_number(Head(pieces))
         IN  IF v[1] = "panic" THEN v
             ELSE Zip(Insert(csq, Head(names), v[2]), Tail(names),
                      Tail(pieces))

\* dat.iter().map(|csq_field| ..).collect::<Result<Value>>()
RECURSIVE Composite(_, _, _)
Composite(names, dat, objects) ==
    IF dat = <<>> THEN <<"ok", Arr(objects)>>
    ELSE IF ~Utf8(Head(dat)) THEN <<"err">>
    ELSE LET o == Zip(EmptyMap, names, Split(Head(dat), "|", <<>>))
         IN  IF o[1] = "panic" THEN o
             ELSE Composite(names, Tail(dat), Append(objects, o[2]))

\* One token of an Integer or Float field with Number=A: "." is Null.
AlleleToken(x, kind) ==
    IF ~Utf8(x) THEN <<"err">>
    ELSE IF x = <<".">> THEN <<"ok", Null>>
    ELSE IF kind = "Integer"
    THEN LET n == ParseI64(x)
         IN  IF n[1] = "ok" THEN <<"ok", NumI(n[2])>> ELSE <<"err">>
    ELSE LET f == ParseF64(x)
         IN  IF f[1] = "ok" THEN <<"ok", ValueOfF64(f[2])>> ELSE <<"err">>

\* dat.iter().map(..).collect::<Result<Vec<Value>>>()?[0]
AlleleFirst(dat, kind) ==
    IF \E i \in 1..Len(dat) : AlleleToken(dat[i], kind)[1] = "err"
    THEN <<"err">>
    ELSE IF dat = <<>> THEN <<"panic">>
    ELSE AlleleToken(dat[1], kind)

\* The first token of an Integer or Float field of any other Number.
FirstToken(dat, kind) ==
    IF dat = <<>> THEN <<"ok", Null>>
    ELSE IF ~Utf8(dat[1]) THEN <<"err">>
    ELSE IF dat[1] = <<".">> THEN <<"ok", Null>>
    ELSE IF kind = "Integer"
    THEN LET n == ParseI64(dat[1])
         IN  IF n[1] = "ok" THEN <<"ok", NumI(n[2])>> ELSE <<"err">>
    ELSE LET f == ParseF64(dat[1])
         IN  IF f[1] = "ok" THEN <<"ok", ValueOfF64(f[2])>> ELSE <<"err">>

\* A field that is neither Flag, Integer, Float nor composite.
PlainText(dat, number) ==
    IF number = "Allele"
    THEN (IF \E i \in 1..Len(dat) : ~Utf8(dat[i]) THEN <<"err">>
          ELSE IF dat = <<>> THEN <<"panic">>
          ELSE <<"ok", Str(dat[1])>>)
    ELSE IF dat = <<>> THEN <<"ok", Null>>
    ELSE IF ~Utf8(dat[1]) THEN <<"err">>
    ELSE <<"ok", Str(dat[1])>>

\* `Some(dat) => ..`
Present(field, dat) ==
    IF field.value_type = "Flag" THEN <<"ok", Bool(TRUE)>>
    ELSE IF field.value_type \in {"Integer", "Float"}
    THEN (IF field.number = "Allele"
          THEN AlleleFirst(dat, field.value_type)
          ELSE FirstToken(dat, field.value_type))
    ELSE IF field.subfields[1] = "some"
    THEN Composite(field.subfields[2], dat, <<>>)
    ELSE PlainText(dat, field.number)

\* All subfields Null.
RECURSIVE AllNull(_, _)
AllNull(csq, names) ==
    IF names = <<>> THEN csq
    ELSE AllNull(Insert(csq, Head(names), Null), Tail(names))

\* `None => ..`
Missing(field) ==
    IF field.value_type = "Flag" THEN <<"ok", Bool(FALSE)>>
    ELSE IF field.subfields[1] = "some"
    THEN <<"ok", Arr(<<Obj(AllNull(EmptyMap, field.subfields[2]))>>)>>
    ELSE <<"ok", Null>>

\* let val = match vcf_record.info(id) {..}; info.insert(field.id, val)
InfoOf(field, dat) ==
    LET val == IF dat[1] = "Some" THEN Present(field, dat[2])
               ELSE Missing(field)
    IN  IF val[1] = "ok" THEN <<"ok", field.id :> val[2]>> ELSE val

DecodeInfo ==
    /\ pc = "call"
    /\ pc' = "done"
    /\ decoded' = InfoOf(arg_field, arg_dat)
    /\ UNCHANGED <<arg_field, arg_dat, joinVars, explodeVars, filterVars,
                   parseVars, runVars, newVars>>

\* The fields examined.  Composite fields: a String field with up to
\* MaxNames subfield names, absent or with sub-tokens of up to MaxPieces
\* pieces together, a piece being empty, a word or a number.  Scalar
\* fields: every value type and Number, registered as composite or not,
\* absent or with up to two tokens.
SubfieldNames == <<"A", "B", "C", "D">>
PieceTexts == {<<>>, <<"x">>, <<"7">>}

RECURSIVE Join(_, _)
Join(pieces, sep) ==
    IF Len(pieces) = 1 THEN pieces[1]
    ELSE pieces[1] \o <<sep>> \o Join(Tail(pieces), sep)

TokensOf(k) == {Join(ps, "|") : ps \in [1..k -> PieceTexts]}

RECURSIVE TokenLists(_)
TokenLists(total) ==
    {<<>>} \cup
    UNION {{<<t>> \o rest : t \in TokensOf(k), rest \in TokenLists(total - k)} :
              k \in 1..total}

Field(id, value_type, number, subfields) ==
    [id |-> id, value_type |-> value_type, number |-> number,
     subfields |-> subfields]

CompositeFields ==
    {Field("CSQ", "String", "Other",
           <<"some", SubSeq(SubfieldNames, 1,
                            IF n <= Len(SubfieldNames) THEN n
                            ELSE Len(SubfieldNames))>>) :
        n \in 1..MaxNames}

ScalarTokens ==
    {<<".">>, <<>>, <<"7">>, <<"-", "3">>, <<"1", ".", "5">>, <<"x">>,
     <<"1", "e", "2">>, <<"i", "n", "f">>, <<InvalidByte>>}

ScalarFields ==
    {Field("F", t, n, sub) :
        t \in {"Flag", "Integer", "Float", "String", "Character"},
        n \in {"Allele", "Other"},
        sub \in {<<"none">>, <<"some", <<"A", "B">>>>}}

DecodeCall ==
    \/ /\ arg_field \in CompositeFields
       /\ arg_dat \in {<<"None">>}
                        \cup {<<"Some", d>> : d \in TokenLists(MaxPieces)}
    \/ /\ arg_field \in ScalarFields
       /\ arg_dat \in {<<"None">>}
                        \cup {<<"Some", d>> : d \in SeqsUpTo(ScalarTokens, 2)}

InitDecode ==
    /\ pc = "call"
    /\ JoinIdle
    /\ ExplodeIdle
    /\ FilterIdle
    /\ ParseIdle
    /\ RunIdle
    /\ NewIdle
    /\ decoded = <<"none">>
    /\ DecodeCall

SpecDecode == InitDecode /\ [][DecodeInfo]_vars

\* The subfield names of the field examined.
NameSet ==
    {arg_field.subfields[2][i] : i \in 1..Len(arg_field.subfields[2])}

\* C20: the decoded value of a composite field is an Array of Objects, and
\* the keys of every Object are exactly the subfield names, whatever the
\* number of pieces of a sub-token, and when the field is absent.  (Stated
\* for String fields, which composite fields are.)
C20_CompositeShape ==
    (pc = "done" /\ arg_field.subfields[1] = "some"
                /\ arg_field.value_type = "String" /\ decoded[1] = "ok") =>
        LET v == decoded[2][arg_field.id]
        IN  /\ v[1] = "arr"
            /\ \A i \in 1..Len(v[2]) :
                   v[2][i][1] = "obj" /\ DOMAIN v[2][i][2] = NameSet
            /\ arg_dat = <<"None">> =>
                   /\ Len(v[2]) = 1
                   /\ \A k \in NameSet : v[2][1][2][k] = <<"null">>

\* C21: an absent field that is neither a Flag nor a composite field has no
\* entry in the decoded info Object; an absent Flag decodes to false and a
\* present Flag to true.
C21_AbsentOmitted ==
    (pc = "done" /\ decoded[1] = "ok") =>
        /\ (/\ arg_dat = <<"None">>
            /\ arg_field.value_type # "Flag"
            /\ arg_field.subfields[1] = "none") =>
               arg_field.id \notin DOMAIN decoded[2]
        /\ arg_field.value_type = "Flag" =>
               decoded[2][arg_field.id] = Bool(arg_dat # <<"None">>)

\* The Value a token of a numeric field stands for: Null for ".", the
\* number it writes, <<"bad">> when it is not a number of that kind.
TokenValue(x, kind) ==
    IF x = <<".">> THEN Null
    ELSE IF ~Utf8(x) THEN <<"bad">>
    ELSE IF kind = "Integer"
    THEN (IF ParseI64(x)[1] = "ok" THEN NumI(ParseI64(x)[2]) ELSE <<"bad">>)
    ELSE (IF ParseF64(x)[1] = "ok" THEN ValueOfF64(ParseF64(x)[2])
          ELSE <<"bad">>)

\* C22: a present Integer or Float field.  Number=A: every token is parsed,
\* a token that is neither "." nor a number is a decode failure, and the
\* value is the first parsed element.  Any other Number: the result depends
\* on the first token only, and is Null when there is no token or the first
\* token is ".".
C22_NumericField ==
    (/\ pc = "done"
     /\ arg_dat[1] = "Some"
     /\ arg_field.value_type \in {"Integer", "Float"}) =>
        LET dat == arg_dat[2]
            kind == arg_field.value_type
        IN  IF arg_field.number = "Allele"
            THEN IF \E i \in 1..Len(dat) : TokenValue(dat[i], kind) = <<"bad">>
                 THEN decoded = <<"err">>
                 ELSE /\ decoded[1] = "ok"
                      /\ dat # <<>> =>
                           decoded[2][arg_field.id] = TokenValue(dat[1], kind)
            ELSE IF dat = <<>>
                 THEN decoded = <<"ok", arg_field.id :> Null>>
                 ELSE IF TokenValue(dat[1], kind) = <<"bad">>
                      THEN decoded = <<"err">>
                      ELSE decoded =
                             <<"ok", arg_field.id :> TokenValue(dat[1], kind)>>

\* The same for records whose Number=A fields hold at least one token.
C22_NumericFieldWithToken ==
    (arg_field.number = "Allele" => arg_dat # <<"Some", <<>>>>) =>
        C22_NumericField

(***************************************************************************)
(* run: the loop of src/src/lib.rs over the lines of the input, for one    *)
(* field to explode.  reader.lines().par_bridge().for_each(closure)      *)
(* hands the lines of one shared iterator to the workers of the pool;     *)
(* each worker runs the closure on the line it took.  A line is <<"#">>, a *)
(* header line; <<"bad">>, a line VCFRecord::from_bytes or Variant::new    *)
(* cannot decode; or <<"rec", v>>, v being serde_json::to_value(&variant). *)
(* Every failure of the closure is an unwrap() or a panic!: it unwinds the *)
(* worker's job, the other workers run on, and for_each re-raises the      *)
(* panic when all of them have stopped.                                    *)
(***************************************************************************)
\* info_fields, for args.fields = ["c"]
InfoField == "info.c"

\* outer_join(explodeds, &info_fields_join).unwrap() for one table and one
\* key: the table is popped as right_table and returned.
JoinOne(table) == table

\* The closure up to `joined`: the rows, or a panic.
Joined(line) ==
    IF line[1] = "bad" THEN [panic |-> TRUE, rows |-> <<>>]
    ELSE LET e == explode_data(line[2], InfoField, <<InfoField>>)
         IN  [panic |-> e.panic, rows |-> JoinOne(e.rows)]

Workers == 1..threads

\* A worker takes the next line of the iterator and runs the closure up to
\* `joined`; a header line is skipped.
NextLine(w) ==
    /\ pc = "run"
    /\ worker[w] = "idle"
    /\ next_line <= Len(arg_lines)
    /\ next_line' = next_line + 1
    /\ IF arg_lines[next_line][1] = "#"
       THEN UNCHANGED <<worker, joined>>
       ELSE IF Joined(arg_lines[next_line]).panic
       THEN /\ worker' = [worker EXCEPT ![w] = "panic"]
            /\ UNCHANGED joined
       ELSE /\ worker' = [worker EXCEPT ![w] = "print"]
            /\ joined' = [joined EXCEPT ![w] = Joined(arg_lines[next_line]).rows]
    /\ UNCHANGED <<pc, arg_lines, arg_filter, threads, sink, joinVars,
                   explodeVars, filterVars, parseVars, decodeVars, newVars>>

\* joined.iter().filter(|x| filter_record(x, &filters)).for_each(print):
\* the next row is filtered and, when it passes, written.
PrintRow(snk, row) == Append(snk, row)

FilterAndPrint(w) ==
    /\ pc = "run"
    /\ worker[w] = "print"
    /\ IF joined[w] = <<>>
       THEN /\ worker' = [worker EXCEPT ![w] = "idle"]
            /\ UNCHANGED <<joined, sink>>
       ELSE LET keep == filter_record(Head(joined[w]), arg_filter)
            IN  /\ worker' = [worker EXCEPT ![w] =
                                 IF keep = "panic" THEN "panic" ELSE "print"]
                /\ joined' = [joined EXCEPT ![w] =
                                 IF keep = "panic" THEN <<>> ELSE Tail(joined[w])]
                /\ sink' = IF keep = "true" THEN PrintRow(sink, Head(joined[w]))
                           ELSE sink
    /\ UNCHANGED <<pc, arg_lines, arg_filter, threads, next_line, joinVars,
                   explodeVars, filterVars, parseVars, decodeVars, newVars>>

\* for_each ends when no worker can take a line any more: run returns
\* Ok(()), or the panic of a worker is raised again.
ForEachEnd ==
    /\ pc = "run"
    /\ \A w \in Workers : worker[w] \in {"idle", "panic"}
    /\ \/ next_line > Len(arg_lines)
       \/ \A w \in Workers : worker[w] = "panic"
    /\ pc' = IF \E w \in Workers : worker[w] = "panic" THEN "panic" ELSE "ok"
    /\ UNCHANGED <<runVars, joinVars, explodeVars, filterVars, parseVars,
                   decodeVars, newVars>>

\* The runs examined: up to MaxLines lines, each a header line, a line that
\* cannot be decoded, or a record whose "info.c" is an Array of two Objects
\* or Null; no filter, or a filter on "info.c.foo" that keeps positive numbers,
\* rejects Null and fails on a String; one to MaxWorkers workers.
RunRecord(a, c) == Obj(("chromosome" :> NumI(a)) @@ (InfoField :> c))

LineKinds ==
    {<<"#">>, <<"bad">>,
     <<"rec", RunRecord(1, Arr(<<Obj("foo" :> NumI(3)), Obj("foo" :> Null)>>))>>,
     <<"rec", RunRecord(2, Arr(<<Obj("foo" :> NumI(5)),
                                 Obj("foo" :> Str(<<"A">>))>>))>>,
     <<"rec", RunRecord(3, Null)>>}

RunFilters ==
    {Null, Compare(<<"i", "n", "f", "o", ".", "c", ".", "f", "o", "o">>,
                  <<"g", "t">>, NumI(0))}

InitRun ==
    /\ pc = "run"
    /\ JoinIdle
    /\ ExplodeIdle
    /\ FilterIdle
    /\ ParseIdle
    /\ DecodeIdle
    /\ NewIdle
    /\ arg_lines \in SeqsUpTo(LineKinds, MaxLines)
    /\ arg_filter \in RunFilters
    /\ threads \in 1..MaxWorkers
    /\ next_line = 1
    /\ worker = [w \in 1..threads |-> "idle"]
    /\ joined = [w \in 1..threads |-> <<>>]
    /\ sink = <<>>

NextRun ==
    \/ \E w \in Workers : NextLine(w)
    \/ \E w \in Workers : FilterAndPrint(w)
    \/ ForEachEnd

SpecRun == InitRun /\ [][NextRun]_vars

\* What the closure writes for one line when it is the only line: the rows
\* written, and whether it panics.
RECURSIVE Printed(_, _, _)
Printed(rows, filter, out) ==
    IF rows = <<>> THEN [panic |-> FALSE, rows |-> out]
    ELSE LET keep == filter_record(Head(rows), filter)
         IN  IF keep = "panic" THEN [panic |-> TRUE, rows |-> out]
             ELSE Printed(Tail(rows), filter,
                          IF keep = "true" THEN Append(out, Head(rows)) ELSE out)

Alone(line) ==
    IF line[1] = "#" THEN [panic |-> FALSE, rows |-> <<>>]
    ELSE IF Joined(line).panic THEN [panic |-> TRUE, rows |-> <<>>]
    ELSE Printed(Joined(line).rows, arg_filter, <<>>)

\* The rows of the lines i.. of the input, one line after the other; only
\* the lines that do not fail when `good` is set.
RECURSIVE RowsFrom(_, _)
RowsFrom(i, good) ==
    IF i > Len(arg_lines) THEN <<>>
    ELSE (IF good /\ Alone(arg_lines[i]).panic THEN <<>>
          ELSE Alone(arg_lines[i]).rows) \o RowsFrom(i + 1, good)

\* How often a row occurs in a sequence of rows.
Count(rows, r) == Cardinality({i \in 1..Len(rows) : rows[i] = r})

RunEnded == pc \in {"ok", "panic"}

\* C23: a record that fails does not stop the run: when the run has ended,
\* every row of every record that does not fail itself has been written,
\* wherever the failing records stand in the input.
C23_OthersEmitted ==
    RunEnded =>
        \A i \in 1..Len(RowsFrom(1, TRUE)) :
            Count(sink, RowsFrom(1, TRUE)[i])
                >= Count(RowsFrom(1, TRUE), RowsFrom(1, TRUE)[i])

\* C24: when the run has ended, the rows written are, as a multiset, the
\* rows each line produces alone, for every number of workers and every
\* interleaving.
C24_SinkIsUnion ==
    RunEnded =>
        /\ Len(sink) = Len(RowsFrom(1, FALSE))
        /\ \A i \in 1..Len(sink) :
               Count(sink, sink[i]) = Count(RowsFrom(1, FALSE), sink[i])

\* The same for the runs in which no line fails.
C24_SinkIsUnionNoFailure ==
    (\A i \in 1..Len(arg_lines) : ~Alone(arg_lines[i]).panic) =>
        /\ pc # "panic"
        /\ C24_SinkIsUnion

(***************************************************************************)
(* A filter expression compiled by parse_logic_expr and evaluated by       *)
(* filter_record on a row.                                                 *)
(***************************************************************************)
\* filter_record(row, &tree) with the tree a successful parse returned.
FilterParsed ==
    /\ pc = "done"
    /\ parsed[1] = "ok"
    /\ pc' = "filtered"
    /\ arg_filters' = parsed[2]
    /\ verdict' = filter_record(arg_record, parsed[2])
    /\ UNCHANGED <<arg_record, parseVars, joinVars, explodeVars, decodeVars,
                   runVars, newVars>>

\* The expressions examined: "baz", an operator token of the parser and a
\* number, with blanks around the operator, and without for the tokens that
\* are not letters; rows whose "baz" is absent, Null or a Number.
NumberTexts == {<<"5">>, <<"3">>, <<"2", ".", "5">>}

QueryTexts ==
    {<<"b", "a", "z">> \o sp \o op \o sp \o n :
        op \in OperatorTexts, n \in NumberTexts, sp \in {<<>>, <<" ">>}}

NumericRows ==
    {EmptyMap} \cup {"baz" :> v : v \in {Null, NumI(3), NumI(7), NumF(5)}}

InitQuery ==
    /\ pc = "call"
    /\ JoinIdle
    /\ ExplodeIdle
    /\ DecodeIdle
    /\ RunIdle
    /\ NewIdle
    /\ arg_input \in QueryTexts
    /\ parsed = <<"none">>
    /\ arg_record \in NumericRows
    /\ arg_filters = Null
    /\ verdict = "none"

NextQuery == ParseLogicExpr \/ FilterParsed

SpecQuery == InitQuery /\ [][NextQuery]_vars

\* C25: the operator of a comparison that parse_logic_expr accepted is one
\* filter_record supports, so the parsed comparison of a field with a number
\* evaluates to true or false on every row whose field is a Number, Null or
\* absent.
C25_ParsedOpsSupported ==
    /\ (pc = "done" /\ parsed[1] = "ok") => OpOf(parsed[2]) \in SupportedOps
    /\ pc = "filtered" => verdict \in {"true", "false"}

\* The same for the expressions whose operator is not "is".
C25_ParsedOpsSupportedButIs ==
    (parsed[1] = "ok" => OpOf(parsed[2]) # "is") => C25_ParsedOpsSupported

(***************************************************************************)
(* Further claims about outer_join.                                        *)
(***************************************************************************)
JoinEnded == pc \in {"ok", "err", "panic"}
SeveralTables == Len(arg_tables) >= 2 /\ Len(arg_keys) = Len(arg_tables)

\* The join-key value of row i of table t as given.
KeyValue(t, i) == Get(arg_tables[t][i], arg_keys[t])

\* Every table as given holds Strings under its key path, and no two rows
\* of a table have the same match token.
DistinctTokens ==
    \A t \in 1..Len(arg_tables) :
        /\ \A i \in 1..Len(arg_tables[t]) : IsStr(KeyValue(t, i))
        /\ \A i, j \in 1..Len(arg_tables[t]) :
               i # j => BeforeDot(KeyValue(t, i)[2]) # BeforeDot(KeyValue(t, j)[2])

\* The match tokens of the rows given.
ArgTokens ==
    UNION {{BeforeDot(KeyValue(t, i)[2]) : i \in 1..Len(arg_tables[t])} :
              t \in 1..Len(arg_tables)}

\* A returned row carries the token under the key path of one of the tables.
Carries(row, tok) ==
    \E t \in 1..Len(arg_keys) :
        /\ IsStr(Get(row, arg_keys[t]))
        /\ BeforeDot(Get(row, arg_keys[t])[2]) = tok

\* C26: three tables, each with distinct match tokens: the rows returned
\* hold at most one row per match token, also for a token that the first
\* and the second table hold and the last table does not.
C26_OneRowPerToken ==
    (/\ pc = "ok"
     /\ Len(arg_tables) = 3
     /\ Len(arg_keys) = 3
     /\ NonEmptyArgs
     /\ DistinctTokens) =>
        \A tok \in ArgTokens :
            Cardinality({i \in 1..Len(right_table) :
                            Carries(right_table[i], tok)}) <= 1

\* The same for the calls in which the last table holds every token of the
\* other tables, or all tables have one key path.
C26_OneRowPerTokenOfLast ==
    (\/ Len(arg_tables) # 3 \/ Len(arg_keys) # 3
     \/ ~NonEmptyArgs \/ ~DistinctTokens
     \/ arg_keys[1] = arg_keys[3]
     \/ ArgTokens = {BeforeDot(KeyValue(3, i)[2]) :
                        i \in 1..Len(arg_tables[3])}) =>
        C26_OneRowPerToken

\* C27: two or more tables and as many keys, one of the tables with no
\* rows: outer_join returns Ok and keeps the rows of the other tables.
C27_EmptyTableOk ==
    (/\ JoinEnded
     /\ SeveralTables
     /\ Cardinality({t \in 1..Len(arg_tables) : arg_tables[t] = <<>>}) = 1
     /\ \A t \in 1..Len(arg_tables) : \A i \in 1..Len(arg_tables[t]) :
            TokenOk(arg_tables[t][i], arg_keys[t])) =>
        /\ pc = "ok"
        /\ Len(right_table) >= Max(ArgRowCounts)

\* C28: two or more non-empty tables whose join-key values are Strings,
\* Numbers, Null or absent: outer_join returns Ok.
C28_KeyTypes ==
    (/\ JoinEnded
     /\ SeveralTables
     /\ NonEmptyArgs
     /\ \A t \in 1..Len(arg_tables) : \A i \in 1..Len(arg_tables[t]) :
            \/ IsNull(KeyValue(t, i))
            \/ IsStr(KeyValue(t, i))
            \/ IsNum(KeyValue(t, i))) =>
        pc = "ok"

\* The same for the calls without a Number under a key path.
C28_KeyTypesNoNumber ==
    (\A t \in 1..Len(arg_tables) : \A i \in 1..Len(arg_tables[t]) :
         Len(arg_keys) = Len(arg_tables) => ~IsNum(KeyValue(t, i))) =>
        C28_KeyTypes


\* ------------------------------------------------------------------------
\* A further claim about filter_record: comparisons on values that are not
\* numbers.
\* ------------------------------------------------------------------------

\* The ordering comparison has a row value that is neither Null nor a
\* Number, or a predicate value that is not a Number.
NotNumeric(node) ==
    \/ ~IsNull(RowValue(node)) /\ ~IsNum(RowValue(node))
    \/ ~IsNum(node[2]["value"])

\* C29: filter_record returns a boolean for every row and every comparison
\* with a supported operator and name, op and value entries; an ordering
\* comparison whose row value is a String, a Bool or an Array, or whose
\* predicate value is not a number, evaluates to false.
C29_TotalOnComparisons ==
    (pc = "done" /\ IsComparison(arg_filters)
                /\ OpOf(arg_filters) \in SupportedOps) =>
        /\ verdict \in {"true", "false"}
        /\ (OpOf(arg_filters) \in OrderingOps /\ NotNumeric(arg_filters)) =>
               verdict = "false"

\* What the code does: a comparison with a supported operator fails exactly
\* when it is an ordering comparison on a row value that is not Null and
\* one of the two values is not a Number; otherwise it is a boolean.
C29_FailsOnlyOnOrdering ==
    (pc = "done" /\ IsComparison(arg_filters)
                /\ OpOf(arg_filters) \in SupportedOps) =>
        IF /\ OpOf(arg_filters) \in OrderingOps
           /\ ~IsNull(RowValue(arg_filters))
           /\ NotNumeric(arg_filters)
        THEN verdict = "panic"
        ELSE verdict \in {"true", "false"}


\* ------------------------------------------------------------------------
\* VcfParser::new: the field names and the join names of a parser.
\* ------------------------------------------------------------------------

\* fields.iter().map(|x| format!("info.{}", x))
InfoFields(fields) == [i \in 1..Len(fields) |-> "info." \o fields[i]]

\* fields_join.iter().enumerate().map(|(ind, x)|
\*     format!("{}.{}", info_fields[ind], x)): the index fails at the first
\* join name that has no field.
JoinPaths(info_fields, fields_join) ==
    IF Len(fields_join) > Len(info_fields) THEN <<"panic">>
    ELSE <<"ok", info_fields,
           [ind \in 1..Len(fields_join) |->
               info_fields[ind] \o "." \o fields_join[ind]]>>

VcfParserNew ==
    /\ pc = "call"
    /\ pc' = "done"
    /\ created' =
         IF Len(arg_fields) > 1 /\ Len(arg_fields) # Len(arg_joins)
         THEN <<"err", "InvalidArgument">>
         ELSE JoinPaths(InfoFields(arg_fields), arg_joins)
    /\ UNCHANGED <<arg_fields, arg_joins, joinVars, explodeVars, filterVars,
                   parseVars, decodeVars, runVars>>

\* The calls examined: up to MaxArgs field names and up to MaxArgs join
\* names.
FieldNames == {"CSQ", "PUB"}
JoinNames == {"Feature", "id"}

InitNew ==
    /\ pc = "call"
    /\ JoinIdle
    /\ ExplodeIdle
    /\ FilterIdle
    /\ ParseIdle
    /\ DecodeIdle
    /\ RunIdle
    /\ arg_fields \in SeqsUpTo(FieldNames, MaxArgs)
    /\ arg_joins \in SeqsUpTo(JoinNames, MaxArgs)
    /\ created = <<"none">>

SpecNew == InitNew /\ [][VcfParserNew]_vars

\* The parser returned has one dotted join path for every entry of
\* info_fields.
OnePathPerField ==
    /\ created[1] = "ok"
    /\ Len(created[2]) = Len(arg_fields)
    /\ Len(created[3]) = Len(created[2])
    /\ \A i \in 1..Len(created[2]) :
           created[3][i] = created[2][i] \o "." \o arg_joins[i]

\* C30: VcfParser::new either returns an InvalidArgument error or returns
\* a parser whose fields_join list has one dotted join path for every entry
\* of info_fields, for every pair of lists, a single field given with no or
\* with several join names included; it never fails in another way.
C30_ErrOrOnePathPerField ==
    pc = "done" =>
        \/ created = <<"err", "InvalidArgument">>
        \/ OnePathPerField

\* What the code does: two or more fields with another number of join
\* names are an InvalidArgument error; otherwise more join names than
\* fields fail on the index, and a parser is returned with one path for
\* each join name, which are fewer than the fields when a single field
\* comes without join name.
C30_NewOutcomes ==
    pc = "done" =>
        IF Len(arg_fields) > 1 /\ Len(arg_fields) # Len(arg_joins)
        THEN created = <<"err", "InvalidArgument">>
        ELSE IF Len(arg_joins) > Len(arg_fields)
        THEN created = <<"panic">>
        ELSE /\ created[1] = "ok"
             /\ Len(created[3]) = Len(arg_joins)
             /\ (Len(arg_joins) = Len(arg_fields) => OnePathPerField)

=============================================================================
